---------------------------- MODULE Spec2Model ----------------------------
(***************************************************************************)
(* Model of the language-analysis pipeline of lang-app:                    *)
(*   - AnalysisCache        (utils/cache_manager.py)                       *)
(*   - PerformanceMonitor   (utils/performance_monitor.py)                 *)
(*   - LanguageAnalysisPipeline and its processor registry (pipeline.py)   *)
(*                                                                         *)
(* Strings are sequences of one-character strings, so that strip(),        *)
(* lower(), split('-') and slicing are computed as the code computes them. *)
(* hashlib.md5 is modelled as injective on its input: a cache key is the   *)
(* content string that the code hashes.                                    *)
(***************************************************************************)
EXTENDS Integers, Sequences, FiniteSets, TLC

VARIABLES
    now,                        \* time.time(), in whole seconds
    cache,                      \* the AnalysisCache: [cache, hits, misses]
    metrics,                    \* PerformanceMonitor.metrics
    request_history,            \* PerformanceMonitor.request_history
    component_times,            \* PerformanceMonitor.component_times
    is_initialized,             \* LanguageAnalysisPipeline._is_initialized
    stanza_processors,          \* _stanza_processors: short code -> handle
    language_tool_processors,   \* _language_tool_processors: long code -> handle
    handles,                    \* the processor objects constructed so far
    call,                       \* the last completed call and its outcome
    trace,                      \* the events of the last completed call
    threads                     \* the callers inside a registry getter: their locals

monitorVars == <<metrics, request_history, component_times>>
registryVars == <<stanza_processors, language_tool_processors, handles>>
pipelineVars == <<monitorVars, is_initialized, registryVars>>
vars == <<now, cache, pipelineVars, call, trace, threads>>

-----------------------------------------------------------------------------
(* Bounds of the model *)

\* AnalysisCache(max_size, ttl_seconds): the constructor arguments, scaled down
max_size == 2
ttl_seconds == 1
\* the clock stops advancing at MaxTime (the pipeline) or CacheMaxTime (the
\* cache driven directly)
MaxTime == 2
CacheMaxTime == 2
\* number of get calls made on the cache
MaxGets == 2
\* PerformanceMonitor(max_history), scaled down
max_history == 2
\* config['max_text_length'], scaled down
max_text_length == 2
\* analyze() calls that reach the cache lookup
MaxRequests == 2
\* seconds one analyze() call can take
MaxElapsed == 1
\* processor objects constructed
MaxHandles == 3
\* callers inside a registry getter at the same time
MaxCallers == 2
\* settings.pipeline_timeout_seconds, in whole seconds
pipeline_timeout_seconds == 0
\* cache calls one caller makes when several callers share the cache;
\* measurements tracked per component
MaxOps == 2
\* characters of a text handed to a processor
MaxLen == 3
\* words of a sentence of the analyzer's document, characters of a word
MaxWords == 2
\* matches the checker answers for one text
MaxMatches == 2

-----------------------------------------------------------------------------
(* Strings *)

\* characters str.strip() and str.split() take as whitespace
Whitespace == {" ", "\t", "\n"}

\* str.lower() on one character
LowerChar(c) ==
    CASE c = "A" -> "a"
      [] c = "B" -> "b"
      [] c = "D" -> "d"
      [] c = "E" -> "e"
      [] c = "N" -> "n"
      [] c = "U" -> "u"
      [] c = "S" -> "s"
      [] OTHER -> c

\* str.lower()
Lower(s) == [i \in 1..Len(s) |-> LowerChar(s[i])]

RECURSIVE LStrip(_)
LStrip(s) == IF s # <<>> /\ Head(s) \in Whitespace THEN LStrip(Tail(s)) ELSE s

RECURSIVE RStrip(_)
RStrip(s) ==
    IF s # <<>> /\ s[Len(s)] \in Whitespace
    THEN RStrip(SubSeq(s, 1, Len(s) - 1))
    ELSE s

\* str.strip()
Strip(s) == RStrip(LStrip(s))

LowerLetters ==
    <<"a", "b", "c", "d", "e", "f", "g", "h", "i", "j", "k", "l", "m">> \o
    <<"n", "o", "p", "q", "r", "s", "t", "u", "v", "w", "x", "y", "z">>

UpperLetters ==
    <<"A", "B", "C", "D", "E", "F", "G", "H", "I", "J", "K", "L", "M">> \o
    <<"N", "O", "P", "Q", "R", "S", "T", "U", "V", "W", "X", "Y", "Z">>

\* str.upper() on one character
UpperChar(c) ==
    IF \E i \in 1..Len(LowerLetters) : LowerLetters[i] = c
    THEN UpperLetters[CHOOSE i \in 1..Len(LowerLetters) : LowerLetters[i] = c]
    ELSE c

\* str.upper()
Upper(s) == [i \in 1..Len(s) |-> UpperChar(s[i])]

\* text[i:], 0-based
From(text, i) == SubSeq(text, i + 1, Len(text))

\* text.startswith(sub, i), 0-based
StartsWith(text, sub, i) ==
    /\ i + Len(sub) <= Len(text)
    /\ SubSeq(text, i + 1, i + Len(sub)) = sub

\* sub in text
Contains(text, sub) == \E i \in 0..Len(text) : StartsWith(text, sub, i)

\* text.find(sub): the first index at which sub occurs, -1 if there is none
Find(text, sub) ==
    IF Contains(text, sub)
    THEN CHOOSE i \in 0..Len(text) :
            /\ StartsWith(text, sub, i)
            /\ \A j \in 0..(i - 1) : ~StartsWith(text, sub, j)
    ELSE -1

\* the length of the longest prefix of text made of characters of chars
RECURSIVE Run(_, _)
Run(text, chars) ==
    IF text # <<>> /\ Head(text) \in chars THEN 1 + Run(Tail(text), chars) ELSE 0

\* text.split(): the maximal runs of characters that are not whitespace
RECURSIVE Split(_)
Split(text) ==
    LET t == LStrip(text)
        n == Run(t, {t[i] : i \in 1..Len(t)} \ Whitespace)
    IN IF t = <<>> THEN <<>> ELSE <<SubSeq(t, 1, n)>> \o Split(From(t, n))

\* len(' '.join(words))
JoinLen(words) ==
    IF words = <<>> THEN 0
    ELSE LET RECURSIVE Sum(_)
             Sum(i) == IF i = 0 THEN 0 ELSE Len(words[i]) + Sum(i - 1)
         IN Sum(Len(words)) + Len(words) - 1

-----------------------------------------------------------------------------
(* AnalysisCache *)

\* Optional[...]: None is the empty set, a value v is {v}
None == {}
Some(v) == {v}

\* AnalysisCache._generate_key: md5 of "<text.strip().lower()>:<language>"
GenerateKey(text, language) == Lower(Strip(text)) \o <<":">> \o language

\* (mutant) an entry expires as soon as ttl_seconds have passed
Expired_AtTtl(entry, current_time) == current_time - entry.timestamp >= ttl_seconds

\* the expiry test of get and cleanup_expired
Expired(entry, current_time) == current_time - entry.timestamp > ttl_seconds

\* self.cache is a dict: the model keeps its entries in dict (insertion) order,
\* each with its key
Keys(entries) == {entries[i].key : i \in 1..Len(entries)}

\* the position of key k in the dict
IndexOf(entries, k) == CHOOSE i \in 1..Len(entries) : entries[i].key = k

\* self.cache[k]
Entry(entries, k) == entries[IndexOf(entries, k)]

\* del self.cache[k]
Remove(entries, k) == SelectSeq(entries, LAMBDA e : e.key # k)

\* self.cache[k] = e: an existing key keeps its place, a new one goes last
Put(entries, e) ==
    IF e.key \in Keys(entries)
    THEN [entries EXCEPT ![IndexOf(entries, e.key)] = e]
    ELSE Append(entries, e)

\* (mutant) the first key with the oldest insertion time: FIFO, not LRU
OldestKey_ByTimestamp(entries) ==
    LET i == CHOOSE i \in 1..Len(entries) :
                 /\ \A j \in 1..Len(entries) : entries[i].timestamp <= entries[j].timestamp
                 /\ \A j \in 1..(i - 1) : entries[j].timestamp > entries[i].timestamp
    IN entries[i].key

\* min(self.cache.keys(), key=lambda k: self.cache[k].last_accessed):
\* the first key, in dict order, whose last_accessed is minimal
OldestKey(entries) ==
    LET i == CHOOSE i \in 1..Len(entries) :
                 /\ \A j \in 1..Len(entries) :
                        entries[i].last_accessed <= entries[j].last_accessed
                 /\ \A j \in 1..(i - 1) :
                        entries[j].last_accessed > entries[i].last_accessed
    IN entries[i].key

\* AnalysisCache._evict_oldest
EvictOldest(entries) ==
    IF entries = <<>> THEN entries ELSE Remove(entries, OldestKey(entries))

\* (mutant) a hit also restarts the entry's lifetime
CacheGet_SlidingTtl(c, text, language, current_time) ==
    LET key == GenerateKey(text, language) IN
    IF key \in Keys(c.cache)
    THEN LET entry == Entry(c.cache, key) IN
         IF Expired(entry, current_time)
         THEN [cache |-> [c EXCEPT !.cache = Remove(c.cache, key),
                                    !.misses = c.misses + 1],
               value |-> None]
         ELSE [cache |-> [c EXCEPT !.cache = Put(c.cache,
                                        [entry EXCEPT !.access_count = entry.access_count + 1,
                                                      !.last_accessed = current_time,
                                                      !.timestamp = current_time]),
                                    !.hits = c.hits + 1],
               value |-> Some(entry.result)]
    ELSE [cache |-> [c EXCEPT !.misses = c.misses + 1], value |-> None]

\* AnalysisCache.get: the cache after the call and the value returned
CacheGet(c, text, language, current_time) ==
    LET key == GenerateKey(text, language) IN
    IF key \in Keys(c.cache)
    THEN LET entry == Entry(c.cache, key) IN
         IF Expired(entry, current_time)
         THEN [cache |-> [c EXCEPT !.cache = Remove(c.cache, key),
                                    !.misses = c.misses + 1],
               value |-> None]
         ELSE [cache |-> [c EXCEPT !.cache = Put(c.cache,
                                        [entry EXCEPT !.access_count = entry.access_count + 1,
                                                      !.last_accessed = current_time]),
                                    !.hits = c.hits + 1],
               value |-> Some(entry.result)]
    ELSE [cache |-> [c EXCEPT !.misses = c.misses + 1], value |-> None]

\* (mutant) set stores without making room
CacheSet_NoEviction(c, text, result, language, current_time) ==
    [c EXCEPT !.cache = Put(c.cache, [key |-> GenerateKey(text, language),
                                      result |-> result,
                                      timestamp |-> current_time,
                                      access_count |-> 1,
                                      last_accessed |-> current_time])]

\* AnalysisCache.set
CacheSet(c, text, result, language, current_time) ==
    LET key == GenerateKey(text, language)
        kept == IF Len(c.cache) >= max_size THEN EvictOldest(c.cache) ELSE c.cache
    IN [c EXCEPT !.cache = Put(kept, [key |-> key,
                                      result |-> result,
                                      timestamp |-> current_time,
                                      access_count |-> 1,
                                      last_accessed |-> current_time])]

\* AnalysisCache.clear
CacheClear(c) == [c EXCEPT !.cache = <<>>]

\* AnalysisCache.cleanup_expired: the cache after the call and the count returned
CacheCleanupExpired(c, current_time) ==
    LET expired_keys == {k \in Keys(c.cache) : Expired(Entry(c.cache, k), current_time)}
    IN [cache |-> [c EXCEPT !.cache = SelectSeq(c.cache, LAMBDA e : e.key \notin expired_keys)],
        value |-> Cardinality(expired_keys)]

-----------------------------------------------------------------------------
(* Inputs *)

de == <<"d", "e">>
de_DE == <<"d", "e", "-", "D", "E">>

\* the texts of the requests: one that preprocessing changes, one it rejects
Texts == {<<" ", "A">>, <<" ">>}

\* the language codes of the requests: a short code and its long form
Languages == {de, de_DE}

\* the (text, language) pairs used when the cache is driven directly: three
\* distinct keys
CacheInputs == {<<<<" ", "A">>, de>>, <<<<" ", "A">>, de_DE>>, <<<<"b">>, de>>}

\* AnalysisResult.model_dump()
Result(originalText, language, sentences, errors) ==
    [originalText |-> originalText, language |-> language,
     sentences |-> sentences, errors |-> errors]

\* the (text, language, result) triples handed to set() when the cache is
\* driven directly: one key is set to two different results
CacheSets ==
    {<<<<" ", "A">>, de, Result(<<"A">>, de, <<>>, <<>>)>>,
     <<<<" ", "A">>, de, Result(<<"A">>, de, <<[text |-> <<"A">>]>>, <<>>)>>,
     <<<<" ", "A">>, de_DE, Result(<<"A">>, de_DE, <<>>, <<>>)>>,
     <<<<"b">>, de, Result(<<"b">>, de, <<>>, <<>>)>>}

\* the record of a completed call: the operation, its arguments, the time a
\* set was made, what it raised ("" when it returned), what it returned and
\* the number it answered with (entries removed, HTTP status code)
Call(op, at, text, language, arg, raised, value, count) ==
    [op |-> op, at |-> at, text |-> text, language |-> language, arg |-> arg,
     raised |-> raised, value |-> value, count |-> count]

NoCall == Call("none", 0, <<>>, <<>>, None, "", None, 0)

-----------------------------------------------------------------------------
(* Language codes *)

HasDash(language) == \E i \in 1..Len(language) : language[i] = "-"

\* language.split('-')[0]
BeforeDash(language) ==
    LET i == CHOOSE i \in 1..Len(language) :
                 language[i] = "-" /\ \A j \in 1..(i - 1) : language[j] # "-"
    IN SubSeq(language, 1, i - 1)

\* (mutant) the long code is lowercased but not cut at the dash
StanzaLanguageCode_NoSplit(language) == Lower(language)

\* LanguageAnalysisPipeline.__get_stanza_language_code
StanzaLanguageCode(language) ==
    IF ~HasDash(language) THEN Lower(language) ELSE Lower(BeforeDash(language))

\* LanguageConstants.SHORT_TO_LONG_CODE
SHORT_TO_LONG_CODE ==
    [short \in {<<"d", "e">>, <<"e", "n">>, <<"f", "r">>, <<"e", "s">>, <<"i", "t">>} |->
        short \o <<"-">> \o
        (CASE short = <<"d", "e">> -> <<"D", "E">>
           [] short = <<"e", "n">> -> <<"U", "S">>
           [] short = <<"f", "r">> -> <<"F", "R">>
           [] short = <<"e", "s">> -> <<"E", "S">>
           [] short = <<"i", "t">> -> <<"I", "T">>)]

\* (mutant) the short code is looked up as written, not lower-cased
NormalizeLanguageCode_NoLower(language) ==
    IF HasDash(language)
    THEN language
    ELSE IF language \in DOMAIN SHORT_TO_LONG_CODE
         THEN SHORT_TO_LONG_CODE[language]
         ELSE language

\* LanguageConstants.normalize_language_code
NormalizeLanguageCode(language) ==
    IF HasDash(language)
    THEN language
    ELSE IF Lower(language) \in DOMAIN SHORT_TO_LONG_CODE
         THEN SHORT_TO_LONG_CODE[Lower(language)]
         ELSE language

-----------------------------------------------------------------------------
(* TextPreprocessor *)

\* (mutant) a text longer than max_length is returned whole
Preprocess_NoTruncation(text, max_length) ==
    IF text = <<>> \/ Strip(text) = <<>>
    THEN [ok |-> FALSE, text |-> <<>>]
    ELSE [ok |-> TRUE, text |-> Strip(text)]

\* TextPreprocessor.preprocess: ok is FALSE where the code raises ValueError
Preprocess(text, max_length) ==
    IF text = <<>>
    THEN [ok |-> FALSE, text |-> <<>>]
    ELSE LET processed_text == Strip(text) IN
         IF processed_text = <<>>
         THEN [ok |-> FALSE, text |-> <<>>]
         ELSE IF Len(processed_text) > max_length
              THEN [ok |-> TRUE, text |-> SubSeq(processed_text, 1, max_length)]
              ELSE [ok |-> TRUE, text |-> processed_text]

\* TextPreprocessor.validate_text, its 'valid' entry
ValidateText(text) == ~(text = <<>> \/ Strip(text) = <<>>)

-----------------------------------------------------------------------------
(* Processors: the analyzer and the checker behind the handles *)

\* what StanzaProcessor.analyze_comprehensive returns for a text
StanzaOut(short_code, text) == <<[text |-> text, model |-> short_code]>>

\* what LanguageToolProcessor.check_text returns for a text: a loaded checker
\* never raises, a failure of tool.check inside it is answered by the fallback
\* path (lines 99-107)
LanguageToolOut(long_code, text) ==
    <<[ruleId |-> <<"S", "P", "E", "L", "L", "E", "R">>, tool |-> long_code]>>

\* the keywords that mark a rule id as a spelling rule
SpellingKeywords ==
    {<<"S", "P", "E", "L", "L", "E", "R">>,
     <<"S", "P", "E", "L", "L">>,
     <<"M", "O", "R", "F", "O", "L", "O", "G", "I", "K">>}

\* (mutant) the rule id is compared as it is, without upper-casing
IsSpelling_NoUpper(error) ==
    \E keyword \in SpellingKeywords : Contains(error.ruleId, keyword)

\* any(keyword in error.ruleId.upper() for keyword in ['SPELLER', 'SPELL',
\* 'MORFOLOGIK'])
IsSpelling(error) ==
    \E keyword \in SpellingKeywords : Contains(Upper(error.ruleId), keyword)

\* seq[:n]
First(seq, n) == IF Len(seq) > n THEN SubSeq(seq, 1, n) ELSE seq

Digits == {"0", "1", "2", "3", "4", "5", "6", "7", "8", "9"}

\* the ASCII letters of the character class of __fallback_spell_check
WordLetters ==
    {LowerLetters[i] : i \in 1..Len(LowerLetters)}
    \cup {UpperLetters[i] : i \in 1..Len(UpperLetters)}

\* the characters of the class \w that texts are made of
WordChars == WordLetters \cup Digits \cup {"_"}

\* StanzaProcessor.__get_character_positions: <<start, end>> of a token
CharacterPositions(text, token_text, token_id) ==
    LET start_pos == Find(text, token_text)
        words == Split(text)
        estimated_start == JoinLen(First(words, token_id - 1))
                           + (IF token_id > 1 THEN 1 ELSE 0)
    IN IF start_pos # -1
       THEN <<start_pos, start_pos + Len(token_text)>>
       ELSE IF token_id <= Len(words)
            THEN <<estimated_start, estimated_start + Len(token_text)>>
            ELSE <<0, Len(token_text)>>

\* StanzaProcessor.analyze_comprehensive: nlp is what the Stanza pipeline
\* answers for the text: it raises, or gives a document, a sequence of
\* sentences that are sequences of word texts (word.id is the 1-based place of
\* the word in its sentence); a token is kept with its text and its span
AnalyzeComprehensive(loaded, nlp, text) ==
    IF ~loaded THEN [raised |-> "Exception", value |-> <<>>]
    ELSE IF Strip(text) = <<>> THEN [raised |-> "", value |-> <<>>]
    ELSE IF nlp.raises THEN [raised |-> "Exception", value |-> <<>>]
    ELSE [raised |-> "",
          value |-> [s \in 1..Len(nlp.doc) |->
                       [id \in 1..Len(nlp.doc[s]) |->
                          LET span == CharacterPositions(text, nlp.doc[s][id], id)
                          IN [text |-> nlp.doc[s][id],
                              startChar |-> span[1],
                              endChar |-> span[2]]]]]

\* LanguageToolProcessor.__preprocess_text_for_languagetool:
\* re.sub(r'(\d+)\s+\1', r'\1', text); a match starts with a whole run of
\* digits, goes on with a whole run of whitespace and ends with the same digits
RECURSIVE PreprocessTextForLanguageTool(_)
PreprocessTextForLanguageTool(text) ==
    IF text = <<>> THEN <<>>
    ELSE LET k == Run(text, Digits)
             w == Run(From(text, k), Whitespace)
             digits == SubSeq(text, 1, k)
         IN IF k > 0 /\ w > 0 /\ StartsWith(text, digits, k + w)
            THEN digits \o PreprocessTextForLanguageTool(From(text, 2 * k + w))
            ELSE <<Head(text)>> \o PreprocessTextForLanguageTool(Tail(text))

\* (mutant) the span of a match is not validated
ExtractErrorInfo_NoValidation(match, text) ==
    Some([startChar |-> match.offset,
          endChar |-> match.offset + match.errorLength,
          suggestions |-> First(match.replacements, 5),
          ruleId |-> match.ruleId])

\* LanguageToolProcessor.__extract_error_info: the GrammarError of a match
\* (without its message), None for a match whose span is invalid
ExtractErrorInfo(match, text) ==
    LET start_char == match.offset
        end_char == match.offset + match.errorLength
    IN IF start_char < 0 \/ end_char > Len(text) \/ start_char >= end_char
       THEN None
       ELSE Some([startChar |-> start_char,
                  endChar |-> end_char,
                  suggestions |-> First(match.replacements, 5),
                  ruleId |-> match.ruleId])

\* LanguageToolProcessor.__adjust_error_positions
AdjustErrorPositions(error, original_text, processed_text) == error

\* the loop of check_text over the matches, lines 83-92
RECURSIVE ExtractErrors(_, _, _)
ExtractErrors(matches, text, processed_text) ==
    IF matches = <<>> THEN <<>>
    ELSE LET error == ExtractErrorInfo(Head(matches), processed_text)
             adjusted == UNION {AdjustErrorPositions(Some(e), text, processed_text)
                                : e \in error}
             rest == ExtractErrors(Tail(matches), text, processed_text)
         IN IF adjusted = None THEN rest
            ELSE <<CHOOSE e \in adjusted : TRUE>> \o rest

\* re.findall(r'\b[a-zA-Z...]+\b', text) from index i on: the runs of letters
\* that have no word character before or after them
RECURSIVE FindWords(_, _)
FindWords(text, i) ==
    IF i >= Len(text) THEN <<>>
    ELSE LET n == Run(From(text, i), WordLetters)
             before == i = 0 \/ text[i] \notin WordChars
             after == i + n = Len(text) \/ text[i + n + 1] \notin WordChars
         IN IF n > 0 /\ before /\ after
            THEN <<SubSeq(text, i + 1, i + n)>> \o FindWords(text, i + n)
            ELSE FindWords(text, i + 1)

\* the errors __fallback_spell_check makes of the matches of one word
WordErrors(text, word, matches) ==
    LET word_start == Find(text, word)
    IN IF word_start = -1 THEN <<>>
       ELSE [i \in 1..Len(matches) |->
               [startChar |-> word_start,
                endChar |-> word_start + Len(word),
                suggestions |-> First(matches[i].replacements, 5),
                ruleId |-> matches[i].ruleId]]

\* LanguageToolProcessor.__fallback_spell_check over the words from the i-th
\* on; a word whose check raises is skipped
RECURSIVE FallbackSpellCheck(_, _, _, _)
FallbackSpellCheck(tool, text, words, i) ==
    IF i > Len(words) THEN <<>>
    ELSE (IF tool.word_raises THEN <<>> ELSE WordErrors(text, words[i], tool.matches))
         \o FallbackSpellCheck(tool, text, words, i + 1)

\* LanguageToolProcessor.check_text: tool is the checker behind the processor:
\* whether it is loaded, whether its check of the text and of a single word
\* raises, and the matches it answers
CheckText(tool, text) ==
    IF ~tool.loaded THEN [raised |-> "Exception", value |-> <<>>]
    ELSE IF Strip(text) = <<>> THEN [raised |-> "", value |-> <<>>]
    ELSE IF ~tool.raises
         THEN [raised |-> "",
               value |-> ExtractErrors(tool.matches, text,
                                       PreprocessTextForLanguageTool(text))]
         ELSE [raised |-> "",
               value |-> FallbackSpellCheck(tool, text, FindWords(text, 0), 1)]

\* LanguageToolProcessor.check_grammar_only (spelling FALSE) and
\* check_spelling_only (spelling TRUE)
CheckFiltered(tool, text, spelling) ==
    IF ~tool.loaded THEN [raised |-> "Exception", value |-> <<>>]
    ELSE IF Strip(text) = <<>> THEN [raised |-> "", value |-> <<>>]
    ELSE [raised |-> "",
          value |-> SelectSeq(CheckText(tool, text).value,
                              LAMBDA e : IsSpelling(e) <=> spelling)]

\* an event of a call: what happened, to which capability, language and handle
Event(ev, cap, key, id, ok) == [ev |-> ev, cap |-> cap, key |-> key, id |-> id, ok |-> ok]

Step(ev, ok) == Event(ev, "", <<>>, 0, ok)

-----------------------------------------------------------------------------
(* Processor registry *)

\* StanzaProcessor.__init__ / LanguageToolProcessor.__init__
NewHandle(cap, language) == [capability |-> cap, language |-> language, is_loaded |-> FALSE]

\* (mutant) a handle is loaded only when it is constructed: a failed load is
\* remembered
GetProcessor_NoRetry(cap, key, procs, hs, load_ok) ==
    LET created == key \notin Keys(procs)
        hs1 == IF created THEN Append(hs, NewHandle(cap, key)) ELSE hs
        procs1 == IF created THEN Put(procs, [key |-> key, id |-> Len(hs1)]) ELSE procs
        id == Entry(procs1, key).id
        hs2 == IF created /\ load_ok THEN [hs1 EXCEPT ![id].is_loaded = TRUE] ELSE hs1
    IN [procs |-> procs1,
        handles |-> hs2,
        id |-> id,
        raised |-> ~hs2[id].is_loaded,
        events |-> IF created
                   THEN <<Event("construct", cap, key, id, TRUE),
                          Event("load", cap, key, id, load_ok)>>
                   ELSE <<>>]

\* the body shared by __get_stanza_processor and __get_language_tool_processor,
\* run without interruption: look the key up, construct and store a handle when
\* it is absent, load it when it is not loaded.  load_ok is whether load_model
\* succeeds; raised is TRUE when it raises.
GetProcessor(cap, key, procs, hs, load_ok) ==
    LET created == key \notin Keys(procs)
        hs1 == IF created THEN Append(hs, NewHandle(cap, key)) ELSE hs
        procs1 == IF created THEN Put(procs, [key |-> key, id |-> Len(hs1)]) ELSE procs
        id == Entry(procs1, key).id
        need_load == ~hs1[id].is_loaded
        hs2 == IF need_load /\ load_ok THEN [hs1 EXCEPT ![id].is_loaded = TRUE] ELSE hs1
    IN [procs |-> procs1,
        handles |-> hs2,
        id |-> id,
        raised |-> need_load /\ ~load_ok,
        events |-> (IF created THEN <<Event("construct", cap, key, id, TRUE)>> ELSE <<>>)
                   \o (IF need_load THEN <<Event("load", cap, key, id, load_ok)>> ELSE <<>>)]

\* LanguageAnalysisPipeline.__get_stanza_processor
GetStanzaProcessor(language, procs, hs, load_ok) ==
    GetProcessor("stanza", StanzaLanguageCode(language), procs, hs, load_ok)

\* (mutant) the checker of a language is built anew on every call and
\* registered in the place of the one before
GetLanguageToolProcessor_Rebuilt(language, procs, hs, load_ok) ==
    GetProcessor("language_tool", NormalizeLanguageCode(language),
                 Remove(procs, NormalizeLanguageCode(language)), hs, load_ok)

\* LanguageAnalysisPipeline.__get_language_tool_processor
GetLanguageToolProcessor(language, procs, hs, load_ok) ==
    GetProcessor("language_tool", NormalizeLanguageCode(language), procs, hs, load_ok)

-----------------------------------------------------------------------------
(* PerformanceMonitor *)

\* the greatest common divisor of two naturals
RECURSIVE GCD(_, _)
GCD(a, b) == IF b = 0 THEN a ELSE GCD(b, a % b)

\* Python's a / b on whole milliseconds, as the exact fraction in lowest terms
\* (the rounding of the float division is not modelled)
Divide(a, b) ==
    LET g == GCD(a, b) IN [num |-> a \div g, den |-> b \div g]

\* PerformanceMetrics(): the counters of a fresh monitor; the minimum is the
\* empty set while it is float('inf')
NewMetrics ==
    [request_count |-> 0, error_count |-> 0, cache_hits |-> 0, cache_misses |-> 0,
     total_processing_time_ms |-> 0,
     average_processing_time_ms |-> [num |-> 0, den |-> 1],
     min_processing_time_ms |-> None,
     max_processing_time_ms |-> 0]

\* min(self.metrics.min_processing_time_ms, processing_time)
Min(m, a) == IF m = None \/ (\A v \in m : a < v) THEN Some(a) ELSE m

\* max(self.metrics.max_processing_time_ms, processing_time)
Max(a, b) == IF b > a THEN b ELSE a

\* the success branch of end_request, lines 110-121
RecordSuccess(m1, processing_time) ==
    LET total == m1.total_processing_time_ms + processing_time
    IN [m1 EXCEPT !.total_processing_time_ms = total,
                  !.average_processing_time_ms = Divide(total, m1.request_count),
                  !.min_processing_time_ms = Min(m1.min_processing_time_ms,
                                                 processing_time),
                  !.max_processing_time_ms = Max(m1.max_processing_time_ms,
                                                 processing_time)]

\* (mutant) a failed request is not counted as an error
RecordFailure_NoCount(m1) == m1

\* the failure branch of end_request, lines 122-123
RecordFailure(m1) == [m1 EXCEPT !.error_count = m1.error_count + 1]

\* (mutant) a full history refuses the new record instead of dropping its
\* oldest one
HistoryAppend_DropNewest(history, record) ==
    IF Len(history) >= max_history
    THEN history
    ELSE Append(history, record)

\* deque(maxlen=max_history).append
HistoryAppend(history, record) ==
    IF Len(history) >= max_history
    THEN Append(Tail(history), record)
    ELSE Append(history, record)

\* (mutant) the cache_hit argument is not passed on: every request counts as
\* a cache miss
EndRequest_HitAsMiss(m, history, start_time, current_time, success, cache_hit) ==
    LET processing_time_ms == (current_time - start_time) * 1000
        m1 == [m EXCEPT !.request_count = m.request_count + 1]
        m2 == IF success
              THEN RecordSuccess(m1, processing_time_ms)
              ELSE RecordFailure(m1)
    IN [metrics |-> [m2 EXCEPT !.cache_misses = m2.cache_misses + 1],
        history |-> HistoryAppend(history, [success |-> success,
                                            cache_hit |-> FALSE,
                                            processing_time_ms |-> processing_time_ms]),
        raised |-> ~success]

\* PerformanceMonitor.end_request: the monitor after the call; raised is TRUE
\* where the closing logger.debug line reads processing_time, a local that is
\* assigned only in the success branch (UnboundLocalError)
EndRequest(m, history, start_time, current_time, success, cache_hit) ==
    LET processing_time_ms == (current_time - start_time) * 1000
        m1 == [m EXCEPT !.request_count = m.request_count + 1]
        m2 == IF success
              THEN RecordSuccess(m1, processing_time_ms)
              ELSE RecordFailure(m1)
        m3 == IF cache_hit
              THEN [m2 EXCEPT !.cache_hits = m2.cache_hits + 1]
              ELSE [m2 EXCEPT !.cache_misses = m2.cache_misses + 1]
    IN [metrics |-> m3,
        history |-> HistoryAppend(history, [success |-> success,
                                            cache_hit |-> cache_hit,
                                            processing_time_ms |-> processing_time_ms]),
        raised |-> ~success]

\* the measurements kept per component by track_component_time
ComponentLimit == 100

\* PerformanceMonitor.track_component_time: component_times after the call, a
\* defaultdict(list) in insertion order
TrackComponentTime(times, component, duration_ms) ==
    LET old == IF component \in Keys(times) THEN Entry(times, component).times
               ELSE <<>>
        all == Append(old, duration_ms)
        kept == IF Len(all) > ComponentLimit
                THEN SubSeq(all, Len(all) - ComponentLimit + 1, Len(all))
                ELSE all
    IN IF component \in Keys(times)
       THEN [times EXCEPT ![IndexOf(times, component)].times = kept]
       ELSE Append(times, [key |-> component, times |-> kept])

\* round(x, 2) of a fraction of milliseconds: the nearest hundredth, ties to
\* the even one
Round2(q) ==
    LET n == q.num * 100
        f == n \div q.den
        r == n % q.den
        h == IF 2 * r < q.den THEN f
             ELSE IF 2 * r > q.den THEN f + 1
             ELSE IF f % 2 = 0 THEN f ELSE f + 1
    IN Divide(h, 100)

\* PerformanceMonitor.__get_recent_requests
RecentRequests(history, count) ==
    IF Len(history) > count
    THEN SubSeq(history, Len(history) - count + 1, Len(history))
    ELSE history

\* PerformanceMonitor.get_performance_summary: the overview, performance,
\* cache, components and recent_requests parts (uptime and system resources
\* are read from the clock and the operating system)
PerformanceSummary(m, history, times) ==
    [total_requests |-> m.request_count,
     error_count |-> m.error_count,
     avg_processing_time_ms |-> Round2(m.average_processing_time_ms),
     min_processing_time_ms |-> IF m.min_processing_time_ms # None
                                THEN CHOOSE v \in m.min_processing_time_ms : TRUE
                                ELSE 0,
     max_processing_time_ms |-> m.max_processing_time_ms,
     total_processing_time_ms |-> m.total_processing_time_ms,
     hits |-> m.cache_hits,
     misses |-> m.cache_misses,
     components |-> [i \in 1..Len(times) |->
                        [key |-> times[i].key, count |-> Len(times[i].times)]],
     recent_requests |-> RecentRequests(history, 5)]

\* (mutant) the reset leaves the request history in place
ResetMetrics_KeepHistory(m, history, times) ==
    [metrics |-> NewMetrics, history |-> history, component_times |-> <<>>]

\* PerformanceMonitor.reset_metrics: the monitor after the call
ResetMetrics(m, history, times) ==
    [metrics |-> NewMetrics, history |-> <<>>, component_times |-> <<>>]

-----------------------------------------------------------------------------
(* The cache driven directly: get, set, clear, cleanup_expired *)

\* a caller that has not entered a registry getter
Idle == [pc |-> "idle", capability |-> "", key |-> <<>>, processor |-> 0]

InitCache ==
    /\ now = 0
    /\ cache = [cache |-> <<>>, hits |-> 0, misses |-> 0]
    /\ call = NoCall
    /\ trace = <<>>
    /\ metrics = NewMetrics
    /\ request_history = <<>>
    /\ component_times = <<>>
    /\ is_initialized = FALSE
    /\ stanza_processors = <<>>
    /\ language_tool_processors = <<>>
    /\ handles = <<>>
    /\ threads = [t \in 1..MaxCallers |-> Idle]

\* time passes
Tick ==
    /\ now < CacheMaxTime
    /\ now' = now + 1
    /\ UNCHANGED <<cache, pipelineVars, call, trace, threads>>

\* the entries an operation removed, each with its insertion time and the
\* number of accesses it had
Removed(before, after, ev) ==
    LET gone == SelectSeq(before, LAMBDA e : e.key \notin Keys(after))
    IN [i \in 1..Len(gone) |->
           [ev |-> ev, key |-> gone[i].key, timestamp |-> gone[i].timestamp,
            access_count |-> gone[i].access_count]]

Get(text, language) ==
    /\ cache.hits + cache.misses < MaxGets
    /\ \E r \in {CacheGet(cache, text, language, now)} :
          /\ cache' = r.cache
          /\ call' = Call("get", 0, text, language, None, "", r.value, 0)
          /\ trace' = Removed(cache.cache, r.cache.cache, "expired")
    /\ UNCHANGED <<now, pipelineVars, threads>>

Set(text, result, language) ==
    /\ \E c \in {CacheSet(cache, text, result, language, now)} :
          /\ cache' = c
          /\ trace' = Removed(cache.cache, c.cache, "evicted")
    /\ call' = Call("set", now, text, language, Some(result), "", None, 0)
    /\ UNCHANGED <<now, pipelineVars, threads>>

Clear ==
    /\ cache' = CacheClear(cache)
    /\ call' = Call("clear", 0, <<>>, <<>>, None, "", None, 0)
    /\ trace' = <<>>
    /\ UNCHANGED <<now, pipelineVars, threads>>

CleanupExpired ==
    /\ \E r \in {CacheCleanupExpired(cache, now)} :
          /\ cache' = r.cache
          /\ call' = Call("cleanup_expired", 0, <<>>, <<>>, None, "", None, r.value)
          /\ trace' = Removed(cache.cache, r.cache.cache, "expired")
    /\ UNCHANGED <<now, pipelineVars, threads>>

NextCache ==
    \/ Tick
    \/ \E in \in CacheInputs : Get(in[1], in[2])
    \/ \E in \in CacheSets : Set(in[1], in[3], in[2])
    \/ Clear
    \/ CleanupExpired

SpecCache == InitCache /\ [][NextCache]_vars

-----------------------------------------------------------------------------
(* Properties of the cache driven directly *)

\* the step is a get: every get counts a hit or a miss
GetStep == call'.op = "get" /\ cache' # cache

\* the step is a set: the entry of its key is new at the time of the call
SetStep == call'.op = "set" /\ (call' # call \/ cache' # cache)

CallKey(c) == GenerateKey(c.text, c.language)

\* C3: set(text, result, language) followed by get(text, language), no other
\* call in between and no more than ttl_seconds later, returns the result set
C3_RoundTrip ==
    [][(/\ call.op = "set"
        /\ call'.op = "get"
        /\ call'.text = call.text
        /\ call'.language = call.language
        /\ now - call.at <= ttl_seconds)
       => call'.value = call.arg]_vars

\* a get that returned the result set before it, some time after the set
C3_Witness ==
    /\ call.op = "get"
    /\ call.value # None
    /\ CallKey(call) \in Keys(cache.cache)
    /\ Entry(cache.cache, CallKey(call)).access_count = 2
    /\ Entry(cache.cache, CallKey(call)).timestamp + ttl_seconds
           = Entry(cache.cache, CallKey(call)).last_accessed

\* C4: expiry is measured from insertion.  An entry's timestamp is the time of
\* the set that stored it and no other call changes it, a hit included; a get
\* later than timestamp + ttl_seconds returns None, removes the entry and
\* counts a miss
C4_TtlFromInsertion ==
    [][/\ \A k \in Keys(cache.cache) \cap Keys(cache'.cache) :
              Entry(cache'.cache, k).timestamp # Entry(cache.cache, k).timestamp
              => SetStep /\ CallKey(call') = k
       /\ SetStep => Entry(cache'.cache, CallKey(call')).timestamp = now
       /\ (GetStep /\ CallKey(call') \in Keys(cache.cache)
             /\ now > Entry(cache.cache, CallKey(call')).timestamp + ttl_seconds)
          => /\ call'.value = None
             /\ CallKey(call') \notin Keys(cache'.cache)
             /\ cache'.misses = cache.misses + 1
             /\ cache'.hits = cache.hits]_vars

\* a get that found its entry expired although the entry had been hit
C4_Witness ==
    /\ call.op = "get"
    /\ call.value = None
    /\ Len(trace) = 1
    /\ trace[1].ev = "expired"
    /\ trace[1].key = CallKey(call)
    /\ trace[1].access_count >= 2
    /\ cache.misses >= 1

\* C5: the cache never holds more than max_size entries, and a set of a new
\* key into a full cache of unexpired entries leaves exactly max_size entries
C5_CacheBound ==
    /\ [](Len(cache.cache) <= max_size)
    /\ [][(/\ SetStep
           /\ Len(cache.cache) = max_size
           /\ CallKey(call') \notin Keys(cache.cache)
           /\ \A i \in 1..Len(cache.cache) : ~Expired(cache.cache[i], now))
          => Len(cache'.cache) = max_size]_vars

\* a set that stored one more distinct key than the cache holds
C5_Witness ==
    /\ call.op = "set"
    /\ Len(cache.cache) = max_size
    /\ Cardinality(Keys(cache.cache)) = max_size
    /\ Len(trace) = 1
    /\ trace[1].ev = "evicted"
    /\ trace[1].key # CallKey(call)

\* C6: a set into a full cache removes exactly one entry, one whose
\* last_accessed is minimal among the stored entries, whatever the order of
\* insertion; an entry accessed later than another is never removed in its place
C6_LruEviction ==
    [][(SetStep /\ Len(cache.cache) >= max_size)
       => /\ \E v \in Keys(cache.cache) :
                /\ \A k \in Keys(cache.cache) :
                       Entry(cache.cache, v).last_accessed
                           <= Entry(cache.cache, k).last_accessed
                /\ Keys(cache'.cache) = (Keys(cache.cache) \ {v}) \cup {CallKey(call')}
          /\ \A a \in Keys(cache.cache) \ Keys(cache'.cache) :
                \A b \in Keys(cache.cache) :
                    Entry(cache.cache, b).last_accessed
                        >= Entry(cache.cache, a).last_accessed]_vars

\* a set evicted an entry although an entry inserted no later is still there:
\* that one had been hit since
C6_Witness ==
    /\ call.op = "set"
    /\ Len(trace) = 1
    /\ trace[1].ev = "evicted"
    /\ trace[1].access_count = 1
    /\ \E i \in 1..Len(cache.cache) :
          /\ cache.cache[i].key # CallKey(call)
          /\ cache.cache[i].timestamp <= trace[1].timestamp
          /\ cache.cache[i].access_count >= 2

\* C20: the hit and miss counters change only by a get, which adds one to one
\* of them; a hit adds one to the access_count of its entry, sets its
\* last_accessed to the current time and changes nothing else; a miss changes
\* no entry that stays
C20_CacheCounters ==
    [][/\ GetStep
          => /\ cache'.hits + cache'.misses = cache.hits + cache.misses + 1
             /\ call'.value # None
                => /\ cache'.hits = cache.hits + 1
                   /\ CallKey(call') \in Keys(cache.cache)
                   /\ cache'.cache =
                         [cache.cache EXCEPT
                            ![IndexOf(cache.cache, CallKey(call'))] =
                               [@ EXCEPT !.access_count = @ + 1, !.last_accessed = now]]
             /\ call'.value = None
                => /\ cache'.misses = cache.misses + 1
                   /\ \A k \in Keys(cache'.cache) :
                         /\ k \in Keys(cache.cache)
                         /\ Entry(cache'.cache, k) = Entry(cache.cache, k)
       /\ ~GetStep => (cache'.hits = cache.hits /\ cache'.misses = cache.misses)]_vars

\* a hit on an entry some time after it was stored, after a miss
C20_Witness ==
    /\ call.op = "get"
    /\ call.value # None
    /\ cache.hits = 1
    /\ cache.misses = 1
    /\ Entry(cache.cache, CallKey(call)).access_count = 2
    /\ Entry(cache.cache, CallKey(call)).last_accessed
          > Entry(cache.cache, CallKey(call)).timestamp

-----------------------------------------------------------------------------
(* LanguageAnalysisPipeline *)

\* an AnalysisRequest
Request(text, language, grammar, morph, dep) ==
    [text |-> text, language |-> language, include_grammar_check |-> grammar,
     include_morphological_analysis |-> morph, include_dependency_parsing |-> dep]

\* the capability flags of the requests: everything, grammar only, morphology
\* only
Flags == {<<TRUE, TRUE, TRUE>>, <<TRUE, FALSE, FALSE>>, <<FALSE, TRUE, FALSE>>}

\* the requests: the text " A" under every choice of flags, the blank text
\* (which no stage but preprocessing sees) under one
Requests ==
    {Request(<<" ", "A">>, language, f[1], f[2], f[3]) :
        language \in Languages, f \in Flags}
    \cup {Request(<<" ">>, language, TRUE, TRUE, TRUE) : language \in Languages}

\* what the surroundings decide during one analyze() call: whether each
\* load_model succeeds, whether the analyzer call succeeds, and the seconds the
\* call takes
Env(stanza_load, stanza_call, lt_load, elapsed) ==
    [stanza_load |-> stanza_load, stanza_call |-> stanza_call,
     lt_load |-> lt_load, elapsed |-> elapsed]

\* the surroundings of a request: an outcome that the request never consults
\* (a capability it does not ask for, a call after a failed load) is fixed
EnvsFor(request) ==
    LET stanza == request.include_morphological_analysis
                    \/ request.include_dependency_parsing
        grammar == request.include_grammar_check
    IN {Env(a, b, c, e) :
            a \in IF stanza THEN BOOLEAN ELSE {TRUE},
            b \in IF stanza THEN BOOLEAN ELSE {TRUE},
            c \in IF grammar THEN BOOLEAN ELSE {TRUE},
            e \in 0..MaxElapsed} \ {Env(FALSE, FALSE, c, e) : c \in BOOLEAN, e \in 0..MaxElapsed}

\* the outcome of a call on the pipeline: the state it leaves, what it raised
\* ("" when it returned), the value returned and the events in order
Outcome(c, m, h, sp, ltp, hs, raised, value, events) ==
    [cache |-> c, metrics |-> m, history |-> h, stanza |-> sp, language_tool |-> ltp,
     handles |-> hs, raised |-> raised, value |-> value, events |-> events]

\* the Stanza stage of analyze(): lines 196-205
StanzaStage(request, processed_text, sp, hs, env) ==
    IF request.include_morphological_analysis \/ request.include_dependency_parsing
    THEN LET g == GetStanzaProcessor(request.language, sp, hs, env.stanza_load)
             key == StanzaLanguageCode(request.language)
         IN IF g.raised
            THEN [procs |-> g.procs, handles |-> g.handles, sentences |-> <<>>,
                  errors |-> <<"Stanza analysis failed">>, events |-> g.events]
            ELSE IF env.stanza_call
                 THEN [procs |-> g.procs, handles |-> g.handles,
                       sentences |-> StanzaOut(key, processed_text),
                       errors |-> <<>>,
                       events |-> g.events \o <<Event("invoke", "stanza", key, g.id, TRUE)>>]
                 ELSE [procs |-> g.procs, handles |-> g.handles, sentences |-> <<>>,
                       errors |-> <<"Stanza analysis failed">>,
                       events |-> g.events \o <<Event("invoke", "stanza", key, g.id, FALSE)>>]
    ELSE [procs |-> sp, handles |-> hs, sentences |-> <<>>, errors |-> <<>>,
          events |-> <<>>]

\* the LanguageTool stage of analyze(): lines 208-217
LanguageToolStage(request, processed_text, ltp, hs, env) ==
    IF request.include_grammar_check
    THEN LET g == GetLanguageToolProcessor(request.language, ltp, hs, env.lt_load)
             key == NormalizeLanguageCode(request.language)
         IN IF g.raised
            THEN [procs |-> g.procs, handles |-> g.handles, grammar_errors |-> <<>>,
                  errors |-> <<"LanguageTool analysis failed">>, events |-> g.events]
            ELSE [procs |-> g.procs, handles |-> g.handles,
                  grammar_errors |-> LanguageToolOut(key, processed_text),
                  errors |-> <<>>,
                  events |-> g.events
                             \o <<Event("invoke", "language_tool", key, g.id, TRUE)>>]
    ELSE [procs |-> ltp, handles |-> hs, grammar_errors |-> <<>>, errors |-> <<>>,
          events |-> <<>>]

\* (mutant) the handler re-raises without calling end_request
AnalyzeFailed_NoRecord(c, m, h, sp, ltp, hs, start_time, current_time, exception, events) ==
    Outcome(c, m, h, sp, ltp, hs, exception, None, events)

\* the handler 'except Exception' of analyze(), lines 234-238: end_request with
\* success=False, then the exception goes on to the caller; when end_request
\* itself raises, its exception is the one the caller sees
AnalyzeFailed(c, m, h, sp, ltp, hs, start_time, current_time, exception, events) ==
    LET e == EndRequest(m, h, start_time, current_time, FALSE, FALSE) IN
    Outcome(c, e.metrics, e.history, sp, ltp, hs,
            IF e.raised THEN "UnboundLocalError" ELSE exception,
            None, events \o <<Step("end_request", FALSE)>>)

\* (mutant) a failure of the Stanza stage is not caught by the stage: it goes
\* to the handler of analyze() and the LanguageTool stage never runs
AnalyzeMiss_StanzaPropagates(request, c, m, h, sp, ltp, hs, start_time, env, events) ==
    LET current_time == start_time + env.elapsed
        pre == Preprocess(request.text, max_text_length)
    IN
    IF ~pre.ok
    THEN AnalyzeFailed(c, m, h, sp, ltp, hs, start_time, current_time, "ValueError",
                       events \o <<Step("preprocess", FALSE)>>)
    ELSE IF ~ValidateText(pre.text)
    THEN AnalyzeFailed(c, m, h, sp, ltp, hs, start_time, current_time, "ValueError",
                       events \o <<Step("preprocess", TRUE), Step("validate", FALSE)>>)
    ELSE IF StanzaStage(request, pre.text, sp, hs, env).errors # <<>>
    THEN AnalyzeFailed(c, m, h, StanzaStage(request, pre.text, sp, hs, env).procs, ltp,
                       StanzaStage(request, pre.text, sp, hs, env).handles,
                       start_time, current_time, "Exception",
                       events \o <<Step("preprocess", TRUE), Step("validate", TRUE)>>
                         \o StanzaStage(request, pre.text, sp, hs, env).events)
    ELSE
    LET st == StanzaStage(request, pre.text, sp, hs, env)
        lt == LanguageToolStage(request, pre.text, ltp, st.handles, env)
        errors == st.errors \o lt.errors
        result == Result(pre.text, request.language, st.sentences, lt.grammar_errors)
        c1 == CacheSet(c, request.text, result, request.language, current_time)
        e == EndRequest(m, h, start_time, current_time, errors = <<>>, FALSE)
        done == events \o <<Step("preprocess", TRUE), Step("validate", TRUE)>>
                  \o st.events \o lt.events
                  \o <<Step("cache_set", TRUE), Step("end_request", errors = <<>>)>>
    IN IF e.raised
       THEN AnalyzeFailed(c1, e.metrics, e.history, st.procs, lt.procs, lt.handles,
                          start_time, current_time, "UnboundLocalError", done)
       ELSE Outcome(c1, e.metrics, e.history, st.procs, lt.procs, lt.handles,
                    "", Some(result), done)

\* the cache-miss path of analyze(), lines 174-238
AnalyzeMiss(request, c, m, h, sp, ltp, hs, start_time, env, events) ==
    LET current_time == start_time + env.elapsed
        pre == Preprocess(request.text, max_text_length)
    IN
    IF ~pre.ok
    THEN AnalyzeFailed(c, m, h, sp, ltp, hs, start_time, current_time, "ValueError",
                       events \o <<Step("preprocess", FALSE)>>)
    ELSE IF ~ValidateText(pre.text)
    THEN AnalyzeFailed(c, m, h, sp, ltp, hs, start_time, current_time, "ValueError",
                       events \o <<Step("preprocess", TRUE), Step("validate", FALSE)>>)
    ELSE
    LET st == StanzaStage(request, pre.text, sp, hs, env)
        lt == LanguageToolStage(request, pre.text, ltp, st.handles, env)
        errors == st.errors \o lt.errors
        result == Result(pre.text, request.language, st.sentences, lt.grammar_errors)
        c1 == CacheSet(c, request.text, result, request.language, current_time)
        e == EndRequest(m, h, start_time, current_time, errors = <<>>, FALSE)
        done == events \o <<Step("preprocess", TRUE), Step("validate", TRUE)>>
                  \o st.events \o lt.events
                  \o <<Step("cache_set", TRUE), Step("end_request", errors = <<>>)>>
    IN IF e.raised
       THEN AnalyzeFailed(c1, e.metrics, e.history, st.procs, lt.procs, lt.handles,
                          start_time, current_time, "UnboundLocalError", done)
       ELSE Outcome(c1, e.metrics, e.history, st.procs, lt.procs, lt.handles,
                    "", Some(result), done)

\* (mutant) a cached result does not end the call: the text is processed
\* again
AnalyzeOutcome_NoShortcut(request, c, m, h, sp, ltp, hs, start_time, env) ==
    LET g == CacheGet(c, request.text, request.language, start_time)
    IN AnalyzeMiss(request, g.cache, m, h, sp, ltp, hs, start_time, env,
                   <<Step("start_request", TRUE), Step("cache_get", g.value # None)>>)

\* LanguageAnalysisPipeline.analyze on an initialized pipeline, lines 163-238
AnalyzeOutcome(request, c, m, h, sp, ltp, hs, start_time, env) ==
    LET g == CacheGet(c, request.text, request.language, start_time)
        events == <<Step("start_request", TRUE), Step("cache_get", g.value # None)>>
    IN IF g.value # None
       THEN LET e == EndRequest(m, h, start_time, start_time, TRUE, TRUE) IN
            Outcome(g.cache, e.metrics, e.history, sp, ltp, hs, "", g.value,
                    events \o <<Step("end_request", TRUE)>>)
       ELSE AnalyzeMiss(request, g.cache, m, h, sp, ltp, hs, start_time, env, events)

\* LanguageAnalysisPipeline.get_pipeline_status, the entries that list handles
PipelineStatus ==
    [initialized |-> is_initialized,
     cached_stanza_languages |-> Keys(stanza_processors),
     cached_language_tool_languages |-> Keys(language_tool_processors)]

\* analyze_grammar_only / analyze_spelling_only past the initialization
\* check: the checker is acquired and check_grammar_only / check_spelling_only
\* filters what check_text found (nothing for a blank text)
CheckOnlyInitialized(spelling, text, language, ltp, hs, lt_load) ==
    LET g == GetLanguageToolProcessor(language, ltp, hs, lt_load)
        key == NormalizeLanguageCode(language)
        all_errors == IF text = <<>> \/ Strip(text) = <<>>
                      THEN <<>>
                      ELSE LanguageToolOut(key, text)
    IN IF g.raised
       THEN [procs |-> g.procs, handles |-> g.handles, raised |-> "Exception",
             value |-> None, events |-> g.events]
       ELSE [procs |-> g.procs, handles |-> g.handles, raised |-> "",
             value |-> Some(SelectSeq(all_errors,
                                      LAMBDA e : IsSpelling(e) <=> spelling)),
             events |-> g.events
                        \o <<Event("invoke", "language_tool", key, g.id, TRUE)>>]

\* (mutant) the initialization check is left out
CheckOnlyOutcome_NoInitCheck(initialized, spelling, text, language, ltp, hs, lt_load) ==
    CheckOnlyInitialized(spelling, text, language, ltp, hs, lt_load)

\* LanguageAnalysisPipeline.analyze_grammar_only / analyze_spelling_only
CheckOnlyOutcome(initialized, spelling, text, language, ltp, hs, lt_load) ==
    IF ~initialized
    THEN [procs |-> ltp, handles |-> hs, raised |-> "NotInitialized",
          value |-> None, events |-> <<>>]
    ELSE CheckOnlyInitialized(spelling, text, language, ltp, hs, lt_load)

\* the handles cleanup() walks: the values of _stanza_processors, then those of
\* _language_tool_processors, each with its capability and key
RegisteredHandles(sp, ltp) ==
    [i \in 1..Len(sp) |-> [cap |-> "stanza", key |-> sp[i].key, id |-> sp[i].id]]
    \o [i \in 1..Len(ltp) |->
           [cap |-> "language_tool", key |-> ltp[i].key, id |-> ltp[i].id]]

\* LanguageAnalysisPipeline.cleanup, lines 354-375; failing holds the handles
\* whose unload_model raises. The whole body is one try block: the first
\* unload that raises ends the walk, and the handler only logs
CleanupOutcome(initialized, sp, ltp, hs, failing) ==
    LET walk == RegisteredHandles(sp, ltp)
        stops == {i \in 1..Len(walk) : walk[i].id \in failing}
        stop == IF stops = {} THEN Len(walk) + 1
                ELSE CHOOSE i \in stops : \A j \in stops : i <= j
        unloaded == {walk[i].id : i \in 1..(stop - 1)}
        attempted == IF stop <= Len(walk) THEN stop ELSE Len(walk)
    IN [initialized |-> IF stops = {} THEN FALSE ELSE initialized,
        stanza |-> IF stops = {} THEN <<>> ELSE sp,
        language_tool |-> IF stops = {} THEN <<>> ELSE ltp,
        handles |-> [i \in 1..Len(hs) |->
                        IF i \in unloaded THEN [hs[i] EXCEPT !.is_loaded = FALSE]
                        ELSE hs[i]],
        raised |-> "",
        events |-> [i \in 1..attempted |->
                       Event("unload", walk[i].cap, walk[i].key, walk[i].id, i # stop)]]

-----------------------------------------------------------------------------
(* The pipeline called by one caller at a time *)

Init == InitCache

PipelineTick ==
    /\ now < CacheMaxTime
    /\ now' = now + 1
    /\ UNCHANGED <<cache, pipelineVars, call, trace, threads>>

\* initialize_pipeline: LanguageAnalysisPipeline.initialize, called when the
\* pipeline is not initialized
Initialize ==
    /\ ~is_initialized
    /\ is_initialized' = TRUE
    /\ call' = Call("initialize", 0, <<>>, <<>>, None, "", None, 0)
    /\ trace' = <<>>
    /\ UNCHANGED <<now, cache, monitorVars, registryVars, threads>>

\* LanguageAnalysisPipeline.analyze, line 160: the pipeline is not initialized
AnalyzeNotInitialized(request) ==
    /\ ~is_initialized
    /\ call' = Call("analyze", 0, request.text, request.language, Some(request),
                    "NotInitialized", None, 0)
    /\ trace' = <<>>
    /\ UNCHANGED <<now, cache, pipelineVars, threads>>

\* LanguageAnalysisPipeline.analyze
Analyze(request, env) ==
    /\ is_initialized
    /\ cache.hits + cache.misses < MaxRequests
    /\ now + env.elapsed <= MaxTime
    /\ \E o \in {AnalyzeOutcome(request, cache, metrics, request_history,
                                 stanza_processors, language_tool_processors, handles,
                                 now, env)} :
          /\ Len(o.handles) <= MaxHandles
          /\ cache' = o.cache
          /\ metrics' = o.metrics
          /\ request_history' = o.history
          /\ stanza_processors' = o.stanza
          /\ language_tool_processors' = o.language_tool
          /\ handles' = o.handles
          /\ now' = IF o.events[2].ok THEN now ELSE now + env.elapsed
          /\ call' = Call("analyze", 0, request.text, request.language, Some(request),
                          o.raised, o.value, 0)
          /\ trace' = o.events
    /\ UNCHANGED <<component_times, is_initialized, threads>>

Next ==
    \/ PipelineTick
    \/ Initialize
    \/ \E request \in Requests : AnalyzeNotInitialized(request)
    \/ \E request \in Requests : \E env \in EnvsFor(request) : Analyze(request, env)

Spec == Init /\ [][Next]_vars

-----------------------------------------------------------------------------
(* Properties of the pipeline called by one caller at a time *)

\* the step is an analyze() call on an initialized pipeline: each one looks
\* the cache up and so counts a hit or a miss
AnalyzeStep == call'.op = "analyze" /\ call'.raised # "NotInitialized" /\ cache' # cache

\* the events of a call that concern one capability
EventsOf(events, cap) == SelectSeq(events, LAMBDA e : e.cap = cap)

Loads(events, cap) == SelectSeq(events, LAMBDA e : e.cap = cap /\ e.ev = "load")

\* the completed call was an analyze() that missed the cache
Missed(c, events) ==
    /\ c.op = "analyze"
    /\ c.raised # "NotInitialized"
    /\ Len(events) >= 2
    /\ events[2].ev = "cache_get"
    /\ ~events[2].ok

WantsStanza(c) ==
    \E r \in c.arg : r.include_morphological_analysis \/ r.include_dependency_parsing

WantsGrammar(c) == \E r \in c.arg : r.include_grammar_check

\* every language code of the requests denotes German: the short code the
\* analyzer is keyed by and the long code the checker is keyed by
German == [stanza |-> <<"d", "e">>, language_tool |-> <<"d", "e", "-", "D", "E">>]

Capabilities == {"stanza", "language_tool"}

Processors(cap) == IF cap = "stanza" THEN stanza_processors ELSE language_tool_processors

\* C1: a cache-miss analyze() that asks for both capabilities, whose grammar
\* checker failed while the analyzer succeeded, returns a result holding the
\* analyzer's sentences, and the request is recorded with success = FALSE
C1_PartialFailureReturns ==
    (/\ Missed(call, trace)
     /\ WantsStanza(call)
     /\ WantsGrammar(call)
     /\ \E i \in 1..Len(trace) :
           trace[i].ev = "invoke" /\ trace[i].cap = "stanza" /\ trace[i].ok
     /\ \E i \in 1..Len(trace) :
           trace[i].ev = "load" /\ trace[i].cap = "language_tool" /\ ~trace[i].ok)
    => /\ call.raised = ""
       /\ call.value # None
       /\ \A r \in call.value : r.sentences # <<>> /\ r.sentences[1].text = <<"A">>
       /\ request_history # <<>>
       /\ ~request_history[Len(request_history)].success

\* C2: an analyze() whose text and language have a live entry in the cache is
\* a cache hit: it returns the stored result, acquires and invokes no
\* processor, and the monitor's cache_hits grows by one; and the entry an
\* analyze() stores is the result it returns
C2_RepeatIsCacheHit ==
    [][AnalyzeStep =>
        /\ (/\ CallKey(call') \in Keys(cache.cache)
            /\ now - Entry(cache.cache, CallKey(call')).timestamp <= ttl_seconds)
           => /\ call'.raised = ""
              /\ call'.value = {Entry(cache.cache, CallKey(call')).result}
              /\ metrics'.cache_hits = metrics.cache_hits + 1
              /\ \A i \in 1..Len(trace') : trace'[i].cap = ""
              /\ UNCHANGED registryVars
        /\ (Missed(call', trace') /\ call'.raised = "")
           => /\ CallKey(call') \in Keys(cache'.cache)
              /\ call'.value = {Entry(cache'.cache, CallKey(call')).result}]_vars

\* the second of two identical requests, both capabilities having succeeded in
\* the first: served from the cache
C2_Witness ==
    /\ call.op = "analyze"
    /\ call.raised = ""
    /\ Len(trace) = 3
    /\ trace[2].ev = "cache_get" /\ trace[2].ok
    /\ metrics.cache_hits = 1
    /\ metrics.request_count = 2
    /\ \A r \in call.value : r.sentences # <<>> /\ r.errors # <<>>
    /\ Entry(cache.cache, CallKey(call)).access_count = 2

\* C7: once a handle for a language is registered and loaded, every later
\* analyze() keeps it registered and loaded, and a request for any code of that
\* language is served by that handle without a construction or a load
C7_RegistryReuse ==
    [][AnalyzeStep =>
        \A cap \in Capabilities :
            \A k \in Keys(Processors(cap)) :
                handles[Entry(Processors(cap), k).id].is_loaded
                => /\ k \in Keys(Processors(cap)')
                   /\ Entry(Processors(cap)', k).id = Entry(Processors(cap), k).id
                   /\ handles'[Entry(Processors(cap), k).id].is_loaded
                   /\ k = German[cap]
                      => \A i \in 1..Len(trace') :
                             trace'[i].cap = cap
                             => /\ trace'[i].ev = "invoke"
                                /\ trace'[i].key = k
                                /\ trace'[i].id = Entry(Processors(cap), k).id]_vars

\* a request under the long code 'de-DE' was served by the handles an earlier
\* request under 'de' had loaded, with nothing constructed or loaded
C7_Witness ==
    /\ Missed(call, trace)
    /\ call.language = de_DE
    /\ GenerateKey(<<"a">>, de) \in Keys(cache.cache)
    /\ \A cap \in Capabilities :
          /\ Len(EventsOf(trace, cap)) = 1
          /\ EventsOf(trace, cap)[1].ev = "invoke"
          /\ EventsOf(trace, cap)[1].id = Entry(Processors(cap), German[cap]).id
    /\ Len(handles) = 2

\* C9: every handle in the registry maps is loaded, so that
\* get_pipeline_status() lists only languages whose processors are loaded
C9_NoFailedHandleCached ==
    /\ \A cap \in Capabilities :
          \A k \in Keys(Processors(cap)) : handles[Entry(Processors(cap), k).id].is_loaded
    /\ \A k \in PipelineStatus.cached_stanza_languages :
          \E i \in 1..Len(handles) :
              /\ handles[i].capability = "stanza"
              /\ handles[i].language = k
              /\ handles[i].is_loaded

\* C10: an analyze() that reaches a capability whose registered handle is not
\* loaded (its load failed before) calls load_model again, once; when that
\* load succeeds the handle is loaded and is the one invoked; and no analyze()
\* loads a capability more than once
C10_LoadRetry ==
    [][AnalyzeStep =>
        \A cap \in Capabilities :
            /\ Len(Loads(trace', cap)) <= 1
            /\ (/\ Missed(call', trace')
                /\ Strip(call'.text) # <<>>
                /\ IF cap = "stanza" THEN WantsStanza(call') ELSE WantsGrammar(call')
                /\ German[cap] \in Keys(Processors(cap))
                /\ ~handles[Entry(Processors(cap), German[cap]).id].is_loaded)
               => /\ Len(Loads(trace', cap)) = 1
                  /\ Loads(trace', cap)[1].id = Entry(Processors(cap), German[cap]).id
                  /\ Loads(trace', cap)[1].ok
                     => /\ handles'[Loads(trace', cap)[1].id].is_loaded
                        /\ Entry(Processors(cap)', German[cap]).id = Loads(trace', cap)[1].id
                        /\ \E i \in 1..Len(trace') :
                              /\ trace'[i].ev = "invoke"
                              /\ trace'[i].cap = cap
                              /\ trace'[i].id = Loads(trace', cap)[1].id]_vars

\* a request found the analyzer's handle registered but not loaded, loaded it
\* with success and invoked it
C10_Witness ==
    /\ Missed(call, trace)
    /\ Len(EventsOf(trace, "stanza")) = 2
    /\ EventsOf(trace, "stanza")[1].ev = "load"
    /\ EventsOf(trace, "stanza")[1].ok
    /\ EventsOf(trace, "stanza")[2].ev = "invoke"
    /\ handles[EventsOf(trace, "stanza")[1].id].is_loaded
    /\ metrics.error_count >= 1

\* a capability stage of the call failed: a load or an invocation raised
StageFailed(events) == \E i \in 1..Len(events) : events[i].cap # "" /\ ~events[i].ok

\* preprocessing or validation of the call failed
FailedFast(events) ==
    \E i \in 1..Len(events) : events[i].ev \in {"preprocess", "validate"} /\ ~events[i].ok

LastRecord == request_history[Len(request_history)]

\* C14: analyze() of a blank text on an initialized pipeline raises the
\* ValueError of preprocessing, leaves no cache entry for the text and
\* acquires or invokes no processor
C14_BlankTextValidationError ==
    (Missed(call, trace) /\ Strip(call.text) = <<>>)
    => /\ call.raised = "ValueError"
       /\ CallKey(call) \notin Keys(cache.cache)
       /\ \A i \in 1..Len(trace) : trace[i].cap = ""

\* C15: an analyze() whose preprocessing or validation fails is recorded by
\* the monitor as a failed request (request_count and error_count grow by one,
\* a history record with success = FALSE is appended) and touches no
\* processor; a blank text is such a request
C15_FailFastRecorded ==
    [][AnalyzeStep =>
        /\ (Missed(call', trace') /\ Strip(call'.text) = <<>>) => FailedFast(trace')
        /\ FailedFast(trace')
           => /\ call'.raised # ""
              /\ metrics'.request_count = metrics.request_count + 1
              /\ metrics'.error_count = metrics.error_count + 1
              /\ request_history' # <<>>
              /\ ~LastRecord'.success
              /\ Len(request_history') =
                    (IF Len(request_history) < max_history
                     THEN Len(request_history) + 1 ELSE max_history)
              /\ \A i \in 1..Len(trace') : trace'[i].cap = ""
              /\ UNCHANGED registryVars]_vars

\* a blank text was refused after an earlier request had succeeded
C15_Witness ==
    /\ Missed(call, trace)
    /\ Strip(call.text) = <<>>
    /\ FailedFast(trace)
    /\ metrics.request_count = 2
    /\ metrics.error_count = 1
    /\ ~LastRecord.success

\* C17: in a cache-miss analyze() of a valid text every requested capability
\* is acquired, and invoked unless its own load failed, whatever happened to
\* the other one; a failure is caught by its stage and counted as an error
\* (the call goes on to cache.set and to end_request with success = FALSE);
\* a capability that was not requested is not touched
C17_CapabilityIndependence ==
    [][(AnalyzeStep /\ Missed(call', trace') /\ ~FailedFast(trace')) =>
        /\ \A cap \in Capabilities :
              IF (IF cap = "stanza" THEN WantsStanza(call') ELSE WantsGrammar(call'))
              THEN /\ EventsOf(trace', cap) # <<>>
                   /\ LET last == EventsOf(trace', cap)[Len(EventsOf(trace', cap))]
                      IN \/ last.ev = "invoke"
                         \/ last.ev = "load" /\ ~last.ok
                   /\ German[cap] \in Keys(Processors(cap)')
              ELSE /\ EventsOf(trace', cap) = <<>>
                   /\ Processors(cap)' = Processors(cap)
        /\ \E i \in 1..Len(trace') :
              /\ trace'[i].ev = "cache_set"
              /\ i < Len(trace')
              /\ trace'[i + 1].ev = "end_request"
              /\ trace'[i + 1].ok = ~StageFailed(trace')]_vars

\* the analyzer's load failed and the checker was still loaded and invoked
C17_Witness ==
    /\ Missed(call, trace)
    /\ WantsStanza(call)
    /\ WantsGrammar(call)
    /\ Len(EventsOf(trace, "stanza")) = 2
    /\ EventsOf(trace, "stanza")[2].ev = "load"
    /\ ~EventsOf(trace, "stanza")[2].ok
    /\ Len(EventsOf(trace, "language_tool")) = 3
    /\ EventsOf(trace, "language_tool")[3].ev = "invoke"
    /\ EventsOf(trace, "language_tool")[3].ok

\* C18: an analyze() in which a requested capability failed leaves the cache
\* without an entry for its text and language
C18_NoEntryAfterFailure ==
    (Missed(call, trace) /\ StageFailed(trace))
    => CallKey(call) \notin Keys(cache.cache)

\* C19: an analyze() that ran longer than pipeline_timeout_seconds raises a
\* timeout error and is recorded with success = FALSE
C19_Timeout ==
    (/\ Missed(call, trace)
     /\ ~FailedFast(trace)
     /\ request_history # <<>>
     /\ LastRecord.processing_time_ms > pipeline_timeout_seconds * 1000)
    => /\ call.raised = "TimeoutError"
       /\ ~LastRecord.success

-----------------------------------------------------------------------------
(* The registry getters entered by several callers at once: the getters take
   no lock, so the callers interleave between the statements *)

Callers == 1..MaxCallers

\* the key a getter files a language under
RegistryKey(cap, language) ==
    IF cap = "stanza" THEN StanzaLanguageCode(language) ELSE NormalizeLanguageCode(language)

InitRegistry == InitCache

\* a caller enters __get_stanza_processor or __get_language_tool_processor and
\* normalizes the language code
Enter(t, cap, language) ==
    /\ threads[t].pc = "idle"
    /\ threads' = [threads EXCEPT ![t] = [pc |-> "check", capability |-> cap,
                                          key |-> RegistryKey(cap, language),
                                          processor |-> 0]]
    /\ UNCHANGED <<now, cache, pipelineVars, call, trace>>

\* if key not in self._..._processors
CheckPresent(t) ==
    /\ threads[t].pc = "check"
    /\ threads' = [threads EXCEPT ![t].pc =
                      IF threads[t].key \in Keys(Processors(threads[t].capability))
                      THEN "fetch" ELSE "construct"]
    /\ UNCHANGED <<now, cache, pipelineVars, call, trace>>

\* self._..._processors[key] = Processor(...)
Construct(t) ==
    /\ threads[t].pc = "construct"
    /\ Len(handles) < MaxHandles
    /\ LET cap == threads[t].capability
           key == threads[t].key
           id == Len(handles) + 1
       IN /\ handles' = Append(handles, NewHandle(cap, key))
          /\ stanza_processors' = IF cap = "stanza"
                                  THEN Put(stanza_processors, [key |-> key, id |-> id])
                                  ELSE stanza_processors
          /\ language_tool_processors' = IF cap = "language_tool"
                                         THEN Put(language_tool_processors,
                                                  [key |-> key, id |-> id])
                                         ELSE language_tool_processors
          /\ trace' = Append(trace, Event("construct", cap, key, id, TRUE))
    /\ threads' = [threads EXCEPT ![t].pc = "fetch"]
    /\ UNCHANGED <<now, cache, monitorVars, is_initialized, call>>

\* processor = self._..._processors[key]
Fetch(t) ==
    /\ threads[t].pc = "fetch"
    /\ threads' = [threads EXCEPT
                      ![t].processor = Entry(Processors(threads[t].capability),
                                             threads[t].key).id,
                      ![t].pc = "is_loaded"]
    /\ UNCHANGED <<now, cache, pipelineVars, call, trace>>

\* if not processor.is_loaded()
CheckLoaded(t) ==
    /\ threads[t].pc = "is_loaded"
    /\ threads' = [threads EXCEPT ![t].pc =
                      IF handles[threads[t].processor].is_loaded THEN "return" ELSE "load"]
    /\ UNCHANGED <<now, cache, pipelineVars, call, trace>>

\* processor.load_model(): it sets _is_loaded or raises
LoadModel(t, load_ok) ==
    /\ threads[t].pc = "load"
    /\ handles' = IF load_ok
                  THEN [handles EXCEPT ![threads[t].processor].is_loaded = TRUE]
                  ELSE handles
    /\ trace' = Append(trace, Event("load", threads[t].capability, threads[t].key,
                                    threads[t].processor, load_ok))
    /\ threads' = [threads EXCEPT ![t].pc = IF load_ok THEN "return" ELSE "raised"]
    /\ UNCHANGED <<now, cache, monitorVars, is_initialized, stanza_processors,
                   language_tool_processors, call>>

NextRegistry ==
    \E t \in Callers :
        \/ \E cap \in Capabilities, language \in Languages : Enter(t, cap, language)
        \/ CheckPresent(t)
        \/ Construct(t)
        \/ Fetch(t)
        \/ CheckLoaded(t)
        \/ \E load_ok \in BOOLEAN : LoadModel(t, load_ok)

SpecRegistry == InitRegistry /\ [][NextRegistry]_vars

\* C8: when the callers of a getter ask together for a language that had no
\* handle, and no load of it fails, load_model is invoked once for it and the
\* callers that return hold the same handle
C8_SingleLoad ==
    \A cap \in Capabilities :
        (\A i \in 1..Len(trace) : trace[i].cap = cap => trace[i].ok)
        => /\ Len(Loads(trace, cap)) <= 1
           /\ \A t1, t2 \in Callers :
                 (/\ threads[t1].pc = "return"
                  /\ threads[t2].pc = "return"
                  /\ threads[t1].capability = cap
                  /\ threads[t2].capability = cap)
                 => threads[t1].processor = threads[t2].processor

-----------------------------------------------------------------------------
(* The life of the pipeline: initialize, the three analysis entry points,
   cleanup *)

\* the requests and surroundings of analyze() here: every capability, no time
\* passing
LifecycleRequests == {Request(<<" ", "A">>, language, TRUE, TRUE, TRUE) : language \in Languages}

LifecycleEnvs == {Env(a, TRUE, c, 0) : a \in BOOLEAN, c \in BOOLEAN}

\* analyze_grammar_only (spelling = FALSE) and analyze_spelling_only
\* (spelling = TRUE)
CheckOnly(spelling, text, language, lt_load) ==
    /\ Len(handles) <= MaxHandles
    /\ \E o \in {CheckOnlyOutcome(is_initialized, spelling, text, language,
                                  language_tool_processors, handles, lt_load)} :
          /\ Len(o.handles) <= MaxHandles
          /\ language_tool_processors' = o.procs
          /\ handles' = o.handles
          /\ call' = Call(IF spelling THEN "analyze_spelling_only"
                          ELSE "analyze_grammar_only",
                          0, text, language, None, o.raised, o.value, 0)
          /\ trace' = o.events
    /\ UNCHANGED <<now, cache, monitorVars, is_initialized, stanza_processors, threads>>

\* the handles that are in a registry map
Registered ==
    {RegisteredHandles(stanza_processors, language_tool_processors)[i].id :
        i \in 1..(Len(stanza_processors) + Len(language_tool_processors))}

\* LanguageAnalysisPipeline.cleanup
Cleanup(failing) ==
    /\ failing \subseteq Registered
    /\ \E o \in {CleanupOutcome(is_initialized, stanza_processors,
                                language_tool_processors, handles, failing)} :
          /\ is_initialized' = o.initialized
          /\ stanza_processors' = o.stanza
          /\ language_tool_processors' = o.language_tool
          /\ handles' = o.handles
          /\ call' = Call("cleanup", 0, <<>>, <<>>, None, o.raised, None, 0)
          /\ trace' = o.events
    /\ UNCHANGED <<now, cache, monitorVars, threads>>

NextLifecycle ==
    \/ Initialize
    \/ \E failing \in SUBSET (1..MaxHandles) : Cleanup(failing)
    \/ \E request \in LifecycleRequests : AnalyzeNotInitialized(request)
    \/ \E request \in LifecycleRequests : \E env \in LifecycleEnvs : Analyze(request, env)
    \/ \E spelling \in BOOLEAN, text \in Texts, language \in Languages, lt_load \in BOOLEAN :
          CheckOnly(spelling, text, language, lt_load)

SpecLifecycle == Init /\ [][NextLifecycle]_vars

AnalysisOps == {"analyze", "analyze_grammar_only", "analyze_spelling_only"}

\* C11: a call of analyze, analyze_grammar_only or analyze_spelling_only on a
\* pipeline that is not initialized raises the not-initialized error and leaves
\* the monitor, the cache and the registry as they were, with no event
C11_NotInitialized ==
    [][(call'.op \in AnalysisOps /\ ~is_initialized)
       => /\ call'.raised = "NotInitialized"
          /\ call'.value = None
          /\ trace' = <<>>
          /\ UNCHANGED <<cache, monitorVars, registryVars, is_initialized>>]_vars

\* after work was done and cleanup() ran, a grammar-only call is refused
C11_Witness ==
    /\ call.op = "analyze_grammar_only"
    /\ call.raised = "NotInitialized"
    /\ ~is_initialized
    /\ handles # <<>>
    /\ stanza_processors = <<>>
    /\ language_tool_processors = <<>>
    /\ metrics.request_count >= 1

\* C12: after cleanup() returns the pipeline is not initialized, also when a
\* handle's unload raised, and cleanup() raises nothing
C12_CleanupEndsUninitialized ==
    call.op = "cleanup" => (~is_initialized /\ call.raised = "")

\* C13: after cleanup() returns both registry maps are empty and every handle
\* but those whose unload raised has been unloaded
C13_CleanupUnloadsAll ==
    call.op = "cleanup"
    => /\ stanza_processors = <<>>
       /\ language_tool_processors = <<>>
       /\ \A id \in 1..Len(handles) :
             handles[id].is_loaded
             => \E i \in 1..Len(trace) :
                   trace[i].ev = "unload" /\ trace[i].id = id /\ ~trace[i].ok

-----------------------------------------------------------------------------
(* POST /analyze: the endpoint analyze_text in front of the pipeline *)

\* the classes an exception is an instance of: HTTPException and
\* UnboundLocalError are exceptions but no ValueError
Classes(exception) ==
    IF exception = "ValueError" THEN {"ValueError", "Exception"} ELSE {"Exception"}

\* the except clauses of analyze_text, lines 55-60, in their order: they see
\* every exception raised inside the try block, the HTTPException of line 44
\* included
StatusOfException(exception) ==
    IF "ValueError" \in Classes(exception) THEN 400 ELSE 500

\* (mutant) the initialization check stands in front of the try block, so its
\* HTTPException reaches the client as raised
StatusCode_CheckOutsideTry(initialized, raised) ==
    IF ~initialized THEN 503
    ELSE IF raised = "" THEN 200 ELSE StatusOfException(raised)

\* the status code analyze_text answers with: raised is what pipeline.analyze
\* raised, "" when it returned
StatusCode(initialized, raised) ==
    IF ~initialized THEN StatusOfException("HTTPException")
    ELSE IF raised = "" THEN 200 ELSE StatusOfException(raised)

\* the bodies POST /analyze is called with: AnalysisRequest refuses the empty
\* text (min_length = 1), a blank one passes
HttpRequests == LifecycleRequests \cup {Request(<<" ">>, de, TRUE, TRUE, TRUE)}

\* analyze_text: the whole handler; count of the call is the status code
PostAnalyze(request, env) ==
    /\ is_initialized => cache.hits + cache.misses < MaxRequests
    /\ \E o \in {IF is_initialized
                 THEN AnalyzeOutcome(request, cache, metrics, request_history,
                                     stanza_processors, language_tool_processors,
                                     handles, now, env)
                 ELSE Outcome(cache, metrics, request_history, stanza_processors,
                              language_tool_processors, handles, "HTTPException",
                              None, <<>>)} :
          /\ Len(o.handles) <= MaxHandles
          /\ cache' = o.cache
          /\ metrics' = o.metrics
          /\ request_history' = o.history
          /\ stanza_processors' = o.stanza
          /\ language_tool_processors' = o.language_tool
          /\ handles' = o.handles
          /\ call' = Call("POST /analyze", 0, request.text, request.language,
                          Some(request), o.raised,
                          IF StatusCode(is_initialized, o.raised) = 200
                          THEN o.value ELSE None,
                          StatusCode(is_initialized, o.raised))
          /\ trace' = o.events
    /\ UNCHANGED <<now, component_times, is_initialized, threads>>

NextHttp ==
    \/ Initialize
    \/ \E failing \in SUBSET (1..MaxHandles) : Cleanup(failing)
    \/ \E request \in HttpRequests : \E env \in LifecycleEnvs : PostAnalyze(request, env)

SpecHttp == Init /\ [][NextHttp]_vars

\* C16: POST /analyze on a pipeline that is not initialized is answered with
\* status 503
C16_NotInitialized503 ==
    (call.op = "POST /analyze" /\ ~is_initialized) => call.count = 503

-----------------------------------------------------------------------------
(* The cache called by several callers at once: AnalysisCache takes no lock, so
   the callers interleave between the statements of get and set *)

\* a caller outside the cache: the calls it has made, the gets it has
\* completed, and what its last call raised
CacheIdle(ops, gets, raised) ==
    [pc |-> "idle", key |-> <<>>, entry |-> None, tmp |-> 0,
     ops |-> ops, gets |-> gets, raised |-> raised]

InitCacheShared ==
    /\ now = 0
    /\ cache = [cache |-> <<>>, hits |-> 0, misses |-> 0]
    /\ call = NoCall
    /\ trace = <<>>
    /\ metrics = NewMetrics
    /\ request_history = <<>>
    /\ component_times = <<>>
    /\ is_initialized = FALSE
    /\ stanza_processors = <<>>
    /\ language_tool_processors = <<>>
    /\ handles = <<>>
    /\ threads = [t \in Callers |-> CacheIdle(0, 0, "")]

SharedTick ==
    /\ now < CacheMaxTime
    /\ now' = now + 1
    /\ UNCHANGED <<cache, pipelineVars, call, trace, threads>>

\* a caller enters get or set: key = self._generate_key(text, language)
CacheEnter(t, op, text, language) ==
    /\ threads[t].pc = "idle"
    /\ threads[t].raised = ""
    /\ threads[t].ops < MaxOps
    /\ threads' = [threads EXCEPT ![t].pc = IF op = "get" THEN "get_contains" ELSE "set_len",
                                  ![t].key = GenerateKey(text, language),
                                  ![t].ops = @ + 1]
    /\ UNCHANGED <<now, cache, pipelineVars, call, trace>>

\* the call of caller t ends with an exception
Raise(t, exception) ==
    [threads EXCEPT ![t] = CacheIdle(threads[t].ops, threads[t].gets, exception)]

\* get, line 80: if key in self.cache
GetContains(t) ==
    /\ threads[t].pc = "get_contains"
    /\ threads' = [threads EXCEPT ![t].pc = IF threads[t].key \in Keys(cache.cache)
                                            THEN "get_fetch" ELSE "misses_read"]
    /\ UNCHANGED <<now, cache, pipelineVars, call, trace>>

\* get, lines 81-84: entry = self.cache[key] and the expiry test
GetFetch(t) ==
    /\ threads[t].pc = "get_fetch"
    /\ threads' = IF threads[t].key \notin Keys(cache.cache)
                  THEN Raise(t, "KeyError")
                  ELSE [threads EXCEPT
                          ![t].entry = Some(Entry(cache.cache, threads[t].key)),
                          ![t].pc = IF Expired(Entry(cache.cache, threads[t].key), now)
                                    THEN "get_del" ELSE "get_touch"]
    /\ UNCHANGED <<now, cache, pipelineVars, call, trace>>

\* get, line 85: del self.cache[key]
GetDel(t) ==
    /\ threads[t].pc = "get_del"
    /\ IF threads[t].key \notin Keys(cache.cache)
       THEN threads' = Raise(t, "KeyError") /\ cache' = cache
       ELSE /\ cache' = [cache EXCEPT !.cache = Remove(cache.cache, threads[t].key)]
            /\ threads' = [threads EXCEPT ![t].pc = "misses_read"]
    /\ UNCHANGED <<now, pipelineVars, call, trace>>

\* get, lines 91-92: entry.access_count += 1; entry.last_accessed = now, on
\* the entry object fetched: the dict shows it while it still holds that entry
GetTouch(t) ==
    /\ threads[t].pc = "get_touch"
    /\ cache' = IF /\ threads[t].key \in Keys(cache.cache)
                   /\ threads[t].entry = {Entry(cache.cache, threads[t].key)}
                THEN [cache EXCEPT !.cache =
                        Put(cache.cache,
                            [Entry(cache.cache, threads[t].key) EXCEPT
                                !.access_count = @ + 1, !.last_accessed = now])]
                ELSE cache
    /\ threads' = [threads EXCEPT ![t].pc = "hits_read"]
    /\ UNCHANGED <<now, pipelineVars, call, trace>>

\* self.hits += 1 and self.misses += 1: the counter is read ...
CounterRead(t) ==
    /\ threads[t].pc \in {"hits_read", "misses_read"}
    /\ threads' = [threads EXCEPT
                      ![t].tmp = IF threads[t].pc = "hits_read"
                                 THEN cache.hits ELSE cache.misses,
                      ![t].pc = IF threads[t].pc = "hits_read"
                                THEN "hits_write" ELSE "misses_write"]
    /\ UNCHANGED <<now, cache, pipelineVars, call, trace>>

\* ... and written back, and get returns
CounterWrite(t) ==
    /\ threads[t].pc \in {"hits_write", "misses_write"}
    /\ cache' = IF threads[t].pc = "hits_write"
                THEN [cache EXCEPT !.hits = threads[t].tmp + 1]
                ELSE [cache EXCEPT !.misses = threads[t].tmp + 1]
    /\ threads' = [threads EXCEPT
                      ![t] = CacheIdle(threads[t].ops, threads[t].gets + 1, "")]
    /\ UNCHANGED <<now, pipelineVars, call, trace>>

\* set, line 115: if len(self.cache) >= self.max_size
SetLen(t) ==
    /\ threads[t].pc = "set_len"
    /\ threads' = [threads EXCEPT ![t].pc = IF Len(cache.cache) >= max_size
                                            THEN "set_oldest" ELSE "set_store"]
    /\ UNCHANGED <<now, cache, pipelineVars, call, trace>>

\* _evict_oldest, lines 129-133: nothing for an empty dict, else
\* oldest_key = min(...)
SetOldest(t) ==
    /\ threads[t].pc = "set_oldest"
    /\ threads' = IF cache.cache = <<>>
                  THEN [threads EXCEPT ![t].pc = "set_store"]
                  ELSE [threads EXCEPT ![t].entry = Some(OldestKey(cache.cache)),
                                       ![t].pc = "set_del"]
    /\ UNCHANGED <<now, cache, pipelineVars, call, trace>>

\* _evict_oldest, line 134: del self.cache[oldest_key]
SetDel(t) ==
    /\ threads[t].pc = "set_del"
    /\ \E oldest_key \in threads[t].entry :
          IF oldest_key \notin Keys(cache.cache)
          THEN threads' = Raise(t, "KeyError") /\ cache' = cache
          ELSE /\ cache' = [cache EXCEPT !.cache = Remove(cache.cache, oldest_key)]
               /\ threads' = [threads EXCEPT ![t].pc = "set_store"]
    /\ UNCHANGED <<now, pipelineVars, call, trace>>

\* set, lines 119-124: self.cache[key] = CacheEntry(...), and set returns
SetStore(t) ==
    /\ threads[t].pc = "set_store"
    /\ cache' = [cache EXCEPT !.cache =
                    Put(cache.cache, [key |-> threads[t].key,
                                      result |-> Result(<<>>, <<>>, <<>>, <<>>),
                                      timestamp |-> now,
                                      access_count |-> 1,
                                      last_accessed |-> now])]
    /\ threads' = [threads EXCEPT ![t] = CacheIdle(threads[t].ops, threads[t].gets, "")]
    /\ UNCHANGED <<now, pipelineVars, call, trace>>

NextCacheShared ==
    \/ SharedTick
    \/ \E t \in Callers :
          \/ \E op \in {"get", "set"}, in \in CacheInputs : CacheEnter(t, op, in[1], in[2])
          \/ GetContains(t)
          \/ GetFetch(t)
          \/ GetDel(t)
          \/ GetTouch(t)
          \/ CounterRead(t)
          \/ CounterWrite(t)
          \/ SetLen(t)
          \/ SetOldest(t)
          \/ SetDel(t)
          \/ SetStore(t)

SpecCacheShared == InitCacheShared /\ [][NextCacheShared]_vars

RECURSIVE CompletedGets(_)
CompletedGets(n) == IF n = 0 THEN 0 ELSE threads[n].gets + CompletedGets(n - 1)

\* C21: with several callers in get and set at once the cache holds no more
\* than max_size entries, no call fails because another removed an entry, and
\* when no call is under way hits + misses is the number of completed gets
C21_CacheThreadSafe ==
    /\ Len(cache.cache) <= max_size
    /\ \A t \in Callers : threads[t].raised = ""
    /\ (\A t \in Callers : threads[t].pc = "idle")
       => cache.hits + cache.misses = CompletedGets(MaxCallers)

-----------------------------------------------------------------------------
(* The two normalizations of a language code, applied to codes of every shape *)

Letters == {"d", "e", "D", "E", "x"}

\* two-letter codes in any case, known ('de', 'DE', ...) and unknown
ShortCodes == {<<a, b>> : a \in Letters, b \in Letters}

Regions == {<<"D", "E">>, <<"d", "e">>, <<"x">>, <<"D", "-", "E">>}

LongCodes == {short \o <<"-">> \o region : short \in ShortCodes, region \in Regions}

Codes == ShortCodes \cup LongCodes

\* LanguageAnalysisPipeline.__get_stanza_language_code(language)
CallStanzaLanguageCode(language) ==
    /\ call' = Call("get_stanza_language_code", 0, <<>>, language, None, "",
                    Some(StanzaLanguageCode(language)), 0)
    /\ UNCHANGED <<now, cache, pipelineVars, trace, threads>>

\* language_constants.normalize_language_code(language)
CallNormalizeLanguageCode(language) ==
    /\ call' = Call("normalize_language_code", 0, <<>>, language, None, "",
                    Some(NormalizeLanguageCode(language)), 0)
    /\ UNCHANGED <<now, cache, pipelineVars, trace, threads>>

NextLanguage ==
    \/ \E language \in Codes : CallStanzaLanguageCode(language)
    \/ \E language \in Codes : CallNormalizeLanguageCode(language)

SpecLanguage == Init /\ [][NextLanguage]_vars

\* C22: the short form of 'xx' and of 'xx-YY' is the lower-case 'xx'; the long
\* form of a code with a dash is the code itself, that of 'de' in any case is
\* 'de-DE' (so 'de' and 'de-DE' agree), that of an unknown short code is the
\* code itself; and the long form of a long form is that long form
C22_LanguageNormalization ==
    /\ call.op = "get_stanza_language_code"
       => \E short \in ShortCodes :
             /\ \/ call.language = short
                \/ \E region \in Regions : call.language = short \o <<"-">> \o region
             /\ call.value = {[i \in 1..2 |-> LowerChar(short[i])]}
    /\ call.op = "normalize_language_code"
       => /\ call.language \in LongCodes => call.value = {call.language}
          /\ call.language \in {<<"d", "e">>, <<"D", "E">>, <<"D", "e">>, <<"d", "E">>,
                                <<"d", "e", "-", "D", "E">>}
             => call.value = {<<"d", "e", "-", "D", "E">>}
          /\ (call.language \in ShortCodes /\ "x" \in {call.language[1], call.language[2]})
             => call.value = {call.language}
          /\ \A v \in call.value : NormalizeLanguageCode(v) = v

\* the long form of 'DE', a known short code in upper case
C22_Witness ==
    /\ call.op = "normalize_language_code"
    /\ call.language = <<"D", "E">>
    /\ call.value = {<<"d", "e", "-", "D", "E">>}

-----------------------------------------------------------------------------
(* The monitor driven directly: end_request, track_component_time,
   get_performance_summary, reset_metrics *)

\* the components whose time is tracked
Components == {"stanza", "language_tool"}

\* the success and cache_hit arguments of end_request
EndRequestArgs ==
    {[success |-> TRUE, cache_hit |-> FALSE],
     [success |-> FALSE, cache_hit |-> FALSE],
     [success |-> TRUE, cache_hit |-> TRUE]}

\* the monitor before a call, kept with the call
MonitorBefore ==
    [requests |-> metrics.request_count,
     errors |-> metrics.error_count,
     total |-> metrics.total_processing_time_ms,
     history |-> Len(request_history),
     components |-> Len(component_times)]

\* start_request, elapsed seconds later end_request; trace keeps every record
\* handed to end_request since the construction or the last reset
CallEndRequest(elapsed, args) ==
    /\ Len(trace) <= max_history
    /\ \E o \in {EndRequest(metrics, request_history, now, now + elapsed,
                             args.success, args.cache_hit)} :
          /\ metrics' = o.metrics
          /\ request_history' = o.history
          /\ trace' = Append(trace, [success |-> args.success,
                                     cache_hit |-> args.cache_hit,
                                     processing_time_ms |-> elapsed * 1000])
          /\ call' = Call("end_request", now, <<>>, <<>>, Some(MonitorBefore),
                          IF o.raised THEN "UnboundLocalError" ELSE "", None, 0)
    /\ UNCHANGED <<now, cache, component_times, is_initialized, registryVars,
                   threads>>

\* track_component_time
CallTrackComponentTime(component) ==
    /\ \A i \in 1..Len(component_times) : Len(component_times[i].times) < MaxOps
    /\ component_times' = TrackComponentTime(component_times, component, 1000)
    /\ call' = Call("track_component_time", now, <<>>, <<>>, Some(MonitorBefore),
                    "", None, 0)
    /\ UNCHANGED <<now, cache, metrics, request_history, is_initialized,
                   registryVars, trace, threads>>

\* get_performance_summary
CallGetPerformanceSummary ==
    /\ call' = Call("get_performance_summary", now, <<>>, <<>>,
                    Some(MonitorBefore), "",
                    Some(PerformanceSummary(metrics, request_history,
                                            component_times)), 0)
    /\ UNCHANGED <<now, cache, pipelineVars, trace, threads>>

\* reset_metrics
CallResetMetrics ==
    /\ \E o \in {ResetMetrics(metrics, request_history, component_times)} :
          /\ metrics' = o.metrics
          /\ request_history' = o.history
          /\ component_times' = o.component_times
    /\ trace' = <<>>
    /\ call' = Call("reset_metrics", now, <<>>, <<>>, Some(MonitorBefore), "",
                    None, 0)
    /\ UNCHANGED <<now, cache, is_initialized, registryVars, threads>>

NextMonitor ==
    \/ \E elapsed \in 0..MaxElapsed, args \in EndRequestArgs :
          CallEndRequest(elapsed, args)
    \/ \E component \in Components : CallTrackComponentTime(component)
    \/ CallGetPerformanceSummary
    \/ CallResetMetrics

SpecMonitor == Init /\ [][NextMonitor]_vars

\* C23: after every end_request, successful or failed, the average processing
\* time is the cumulative total divided by the request count
C23_CumulativeAverage ==
    call.op = "end_request"
    => metrics.average_processing_time_ms =
           Divide(metrics.total_processing_time_ms, metrics.request_count)

\* C24: the request history holds the most recent min(n, max_history) of the
\* n records handed to end_request since the construction or the last reset,
\* in arrival order
C24_BoundedHistory ==
    call.op \in {"end_request", "reset_metrics"}
    => LET n == Len(trace)
           kept == IF n < max_history THEN n ELSE max_history
       IN /\ Len(request_history) = kept
          /\ request_history = SubSeq(trace, n - kept + 1, n)

\* C24 witness: end_request on a full history displaced the oldest record
C24_Witness ==
    /\ call.op = "end_request"
    /\ Len(trace) > max_history
    /\ trace[1] # trace[Len(trace) - max_history + 1]
    /\ request_history = SubSeq(trace, Len(trace) - max_history + 1, Len(trace))

\* C25: reset_metrics returns the monitor to its initial state: zero counts,
\* zero total, average and maximum, a minimum reported as 0, an empty history
\* and no component timings
C25_ResetMetrics ==
    call.op = "reset_metrics"
    => /\ metrics.request_count = 0
       /\ metrics.error_count = 0
       /\ metrics.cache_hits = 0
       /\ metrics.cache_misses = 0
       /\ metrics.total_processing_time_ms = 0
       /\ metrics.average_processing_time_ms = [num |-> 0, den |-> 1]
       /\ metrics.max_processing_time_ms = 0
       /\ PerformanceSummary(metrics, request_history,
                             component_times).min_processing_time_ms = 0
       /\ request_history = <<>>
       /\ component_times = <<>>

\* C25 witness: reset_metrics on a monitor that had counted requests and
\* errors, accumulated time, a history and component timings
C25_Witness ==
    /\ call.op = "reset_metrics"
    /\ \E before \in call.arg :
          /\ before.requests > 1
          /\ before.errors > 0
          /\ before.total > 0
          /\ before.history > 0
          /\ before.components > 0
    /\ metrics = NewMetrics
    /\ request_history = <<>>
    /\ component_times = <<>>

-----------------------------------------------------------------------------
(* The processors driven directly: the inputs of a call are drawn when the
   processor is set up and kept in call, with op "none" until the call is made *)

\* the sequences over S of length at most n
SeqsUpTo(S, n) == UNION {[1..k -> S] : k \in 0..n}

\* the state after construction, with the inputs of the call to come
InitOf(text, arg) ==
    /\ now = 0
    /\ cache = [cache |-> <<>>, hits |-> 0, misses |-> 0]
    /\ call = Call("none", 0, text, <<>>, Some(arg), "", None, 0)
    /\ trace = <<>>
    /\ metrics = NewMetrics
    /\ request_history = <<>>
    /\ component_times = <<>>
    /\ is_initialized = FALSE
    /\ stanza_processors = <<>>
    /\ language_tool_processors = <<>>
    /\ handles = <<>>
    /\ threads = [t \in 1..MaxCallers |-> Idle]

\* the texts handed to analyze_comprehensive
StanzaTexts == SeqsUpTo({"a", "b", " "}, MaxLen)

\* the word texts of the analyzer's document
WordTexts == SeqsUpTo({"a", "b"}, MaxWords)

\* the documents of the analyzer: no sentence, or one sentence of some words
Docs == {<<>>} \cup {<<sentence>> : sentence \in SeqsUpTo(WordTexts, MaxWords) \ {<<>>}}

\* the StanzaProcessor of a call: not loaded, loaded with a pipeline that
\* raises, loaded with a pipeline that answers a document
StanzaInputs ==
    {[loaded |-> FALSE, nlp |-> [raises |-> FALSE, doc |-> <<>>]],
     [loaded |-> TRUE, nlp |-> [raises |-> TRUE, doc |-> <<>>]]}
    \cup {[loaded |-> TRUE, nlp |-> [raises |-> FALSE, doc |-> doc]] : doc \in Docs}

InitStanza == \E text \in StanzaTexts, stanza \in StanzaInputs : InitOf(text, stanza)

\* analyze_comprehensive(text)
CallAnalyzeComprehensive ==
    /\ call.op = "none"
    /\ \E stanza \in call.arg :
          \E o \in {AnalyzeComprehensive(stanza.loaded, stanza.nlp, call.text)} :
             call' = Call("analyze_comprehensive", 0, call.text, <<>>, call.arg,
                          o.raised, IF o.raised = "" THEN Some(o.value) ELSE None, 0)
    /\ UNCHANGED <<now, cache, pipelineVars, trace, threads>>

NextStanza == CallAnalyzeComprehensive

SpecStanza == InitStanza /\ [][NextStanza]_vars

\* C27: every token analyze_comprehensive returns has a span with
\* 0 <= startChar < endChar <= len(text)
C27_TokenSpan ==
    call.op = "analyze_comprehensive"
    => \A sentences \in call.value :
          \A s \in 1..Len(sentences) :
             \A i \in 1..Len(sentences[s]) :
                /\ 0 <= sentences[s][i].startChar
                /\ sentences[s][i].startChar < sentences[s][i].endChar
                /\ sentences[s][i].endChar <= Len(call.text)

\* the texts handed to check_text
CheckTexts == SeqsUpTo({"5", " ", "a"}, MaxLen)

\* the replacements of a match: none, or six
Replacements == {<<>>, [i \in 1..6 |-> i]}

\* the rule ids of the matches
RuleIds ==
    {<<"D", "E", "_", "S", "P", "E", "L", "L", "E", "R">>,
     <<"h", "u", "n", "s", "p", "e", "l", "l">>,
     <<"M", "O", "R", "F", "O", "L", "O", "G", "I", "K", "_", "D", "E">>,
     <<"C", "O", "M", "M", "A", "_", "S", "P", "E", "L">>,
     <<"D", "E", "_", "C", "A", "S", "E">>}

\* the matches of a text whose spans differ
SpanMatches ==
    {[offset |-> offset, errorLength |-> errorLength, replacements |-> replacements,
      ruleId |-> <<"D", "E", "_", "C", "A", "S", "E">>]
     : offset \in -1..1, errorLength \in {0, 1, MaxLen},
       replacements \in Replacements}

\* the matches of a single word, whose offsets are not read
WordMatches ==
    {[offset |-> 0, errorLength |-> 1, replacements |-> replacements,
      ruleId |-> <<"M", "O", "R", "F", "O", "L", "O", "G", "I", "K", "_", "D", "E">>]
     : replacements \in Replacements}

\* the matches whose rule ids differ
RuleMatches ==
    {[offset |-> 0, errorLength |-> 1, replacements |-> <<>>, ruleId |-> ruleId]
     : ruleId \in RuleIds}

\* the LanguageToolProcessor of a call: not loaded; loaded with a checker
\* that answers some of the matches for a text; loaded with a checker that
\* raises for a text and answers some of the matches for a word; loaded with
\* a checker that always raises
ToolInputs(text_matches, word_matches) ==
    {[loaded |-> FALSE, raises |-> FALSE, word_raises |-> FALSE, matches |-> <<>>],
     [loaded |-> TRUE, raises |-> TRUE, word_raises |-> TRUE, matches |-> <<>>]}
    \cup {[loaded |-> TRUE, raises |-> FALSE, word_raises |-> FALSE,
           matches |-> matches] : matches \in SeqsUpTo(text_matches, MaxMatches)}
    \cup {[loaded |-> TRUE, raises |-> TRUE, word_raises |-> FALSE,
           matches |-> matches] : matches \in SeqsUpTo(word_matches, MaxMatches)}

InitCheckText ==
    \E text \in CheckTexts, tool \in ToolInputs(SpanMatches, WordMatches) :
       InitOf(text, tool)

\* check_text(text)
CallCheckText ==
    /\ \A i \in 1..Len(trace) : trace[i].op # "check_text"
    /\ \E tool \in call.arg :
          \E o \in {CheckText(tool, call.text)} :
             /\ call' = Call("check_text", 0, call.text, <<>>, call.arg, o.raised,
                             IF o.raised = "" THEN Some(o.value) ELSE None, 0)
             /\ trace' = Append(trace, [op |-> "check_text", raised |-> o.raised,
                                        value |-> o.value])
    /\ UNCHANGED <<now, cache, pipelineVars, threads>>

NextCheckText == CallCheckText

SpecCheckText == InitCheckText /\ [][NextCheckText]_vars

\* C28: every error check_text returns, on the normal path and on the
\* word-by-word fallback path, has a span with
\* 0 <= startChar < endChar <= len(text) and at most 5 suggestions
C28_ErrorSpan ==
    call.op = "check_text"
    => \A errors \in call.value :
          \A i \in 1..Len(errors) :
             /\ 0 <= errors[i].startChar
             /\ errors[i].startChar < errors[i].endChar
             /\ errors[i].endChar <= Len(call.text)
             /\ Len(errors[i].suggestions) <= 5

\* C28 witness: on the normal path a match with an invalid span was dropped
\* and a match with six replacements was kept with five suggestions
C28_Witness ==
    /\ call.op = "check_text"
    /\ \E tool \in call.arg, errors \in call.value :
          /\ ~tool.raises
          /\ Len(tool.matches) = 2
          /\ Len(errors) = 1
          /\ Len(errors[1].suggestions) = 5
          /\ errors[1].endChar <= Len(call.text)

\* C28 witness on the fallback path: the check of the text raised and the
\* word-by-word check returned an error with five suggestions
C28_WitnessFallback ==
    /\ call.op = "check_text"
    /\ \E tool \in call.arg, errors \in call.value :
          /\ tool.raises
          /\ errors # <<>>
          /\ Len(errors[1].suggestions) = 5
          /\ errors[1].startChar > 0

\* the texts handed to check_text, check_grammar_only and check_spelling_only
\* one after the other
OnlyTexts == SeqsUpTo({" ", "a"}, MaxLen)

InitCheckOnly ==
    \E text \in OnlyTexts, tool \in ToolInputs(RuleMatches, RuleMatches) :
       InitOf(text, tool)

\* check_grammar_only(text) and check_spelling_only(text)
CallCheckFiltered(spelling) ==
    /\ \A i \in 1..Len(trace) :
          trace[i].op # (IF spelling THEN "check_spelling_only"
                         ELSE "check_grammar_only")
    /\ \E tool \in call.arg :
          \E o \in {CheckFiltered(tool, call.text, spelling)} :
             \E op \in {IF spelling THEN "check_spelling_only"
                         ELSE "check_grammar_only"} :
                /\ call' = Call(op, 0, call.text, <<>>, call.arg, o.raised,
                                IF o.raised = "" THEN Some(o.value) ELSE None, 0)
                /\ trace' = Append(trace, [op |-> op, raised |-> o.raised,
                                           value |-> o.value])
    /\ UNCHANGED <<now, cache, pipelineVars, threads>>

NextCheckOnly ==
    \/ CallCheckText
    \/ \E spelling \in BOOLEAN : CallCheckFiltered(spelling)

SpecCheckOnly == InitCheckOnly /\ [][NextCheckOnly]_vars

\* the result of the call of op on the processor, once it is made
ResultOf(op) == {trace[i] : i \in {j \in 1..Len(trace) : trace[j].op = op}}

\* an error is a spelling error: its rule id, upper-cased, contains SPELLER,
\* SPELL or MORFOLOGIK
SpellingRule(error) ==
    \/ Contains(Upper(error.ruleId), <<"S", "P", "E", "L", "L", "E", "R">>)
    \/ Contains(Upper(error.ruleId), <<"S", "P", "E", "L", "L">>)
    \/ Contains(Upper(error.ruleId), <<"M", "O", "R", "F", "O", "L", "O", "G", "I", "K">>)

\* C26: check_grammar_only and check_spelling_only split the output of
\* check_text for the same text into two disjoint lists whose union is the
\* whole output: the spelling errors are the errors whose rule id, upper-cased,
\* contains SPELLER, SPELL or MORFOLOGIK, the grammar errors are the others
C26_GrammarSpellingPartition ==
    \A all \in ResultOf("check_text"), grammar \in ResultOf("check_grammar_only"),
       spelling \in ResultOf("check_spelling_only") :
       /\ grammar.raised = all.raised
       /\ spelling.raised = all.raised
       /\ spelling.value = SelectSeq(all.value, SpellingRule)
       /\ grammar.value = SelectSeq(all.value, LAMBDA e : ~SpellingRule(e))
       /\ Len(grammar.value) + Len(spelling.value) = Len(all.value)
       /\ \A i \in 1..Len(grammar.value), j \in 1..Len(spelling.value) :
             grammar.value[i] # spelling.value[j]

\* C26 witness: the three calls were made for a text whose check gave a
\* grammar error and a spelling error with a lower-case rule id
C26_Witness ==
    \E all \in ResultOf("check_text"), grammar \in ResultOf("check_grammar_only"),
       spelling \in ResultOf("check_spelling_only") :
       /\ Len(all.value) = 2
       /\ Len(grammar.value) = 1
       /\ Len(spelling.value) = 1
       /\ spelling.value[1].ruleId = <<"h", "u", "n", "s", "p", "e", "l", "l">>

-----------------------------------------------------------------------------
(* The preprocessor driven directly *)

\* the texts handed to preprocess
PreprocessTexts == SeqsUpTo({"a", "b", " ", "\t"}, MaxLen)

\* TextPreprocessor(max_length) for a max_length of at least 1, and the text
InitPreprocess ==
    \E text \in PreprocessTexts, max_length \in 1..MaxLen : InitOf(text, max_length)

\* preprocess(text)
CallPreprocess ==
    /\ call.op = "none"
    /\ \E max_length \in call.arg :
          \E o \in {Preprocess(call.text, max_length)} :
             call' = Call("preprocess", 0, call.text, <<>>, call.arg,
                          IF o.ok THEN "" ELSE "ValueError",
                          IF o.ok THEN Some(o.text) ELSE None, 0)
    /\ UNCHANGED <<now, cache, pipelineVars, trace, threads>>

NextPreprocess == CallPreprocess

SpecPreprocess == InitPreprocess /\ [][NextPreprocess]_vars

\* C29: for max_length >= 1, preprocess fails with ValueError on an empty or
\* whitespace-only text; otherwise it returns the text without its surrounding
\* whitespace cut to its first max_length characters, which is never empty and
\* has length min(len(trimmed), max_length)
C29_PreprocessContract ==
    call.op = "preprocess"
    => \A max_length \in call.arg :
          LET text == call.text
              inner == {i \in 1..Len(text) : text[i] \notin {" ", "\t", "\n"}}
          IN IF inner = {}
             THEN call.raised = "ValueError" /\ call.value = None
             ELSE LET first == CHOOSE i \in inner : \A j \in inner : i <= j
                      last == CHOOSE i \in inner : \A j \in inner : j <= i
                      trimmed == SubSeq(text, first, last)
                  IN /\ call.raised = ""
                     /\ \A out \in call.value :
                           /\ out # <<>>
                           /\ Len(out) = (IF Len(trimmed) < max_length
                                          THEN Len(trimmed) ELSE max_length)
                           /\ out = SubSeq(trimmed, 1, Len(out))
                     /\ call.value # None

\* C29 witness: a text with whitespace around more than max_length characters
\* was returned trimmed and cut to exactly max_length characters
C29_Witness ==
    /\ call.op = "preprocess"
    /\ \E max_length \in call.arg, out \in call.value :
          /\ call.text[1] = " "
          /\ Len(call.text) > max_length + 1
          /\ Len(out) = max_length
          /\ out[1] = call.text[2]
          /\ call.text[Len(call.text)] # " "

-----------------------------------------------------------------------------
(* The pipeline with its status and metrics calls *)

\* LanguageAnalysisPipeline.get_pipeline_status
GetPipelineStatus ==
    /\ call' = Call("get_pipeline_status", 0, <<>>, <<>>, None, "",
                    Some(PipelineStatus), 0)
    /\ trace' = <<>>
    /\ UNCHANGED <<now, cache, pipelineVars, threads>>

\* LanguageAnalysisPipeline.get_performance_metrics
GetPerformanceMetrics ==
    /\ call' = Call("get_performance_metrics", 0, <<>>, <<>>, None, "",
                    Some([performance |-> PerformanceSummary(metrics, request_history,
                                                             component_times),
                          cache |-> [hits |-> cache.hits, misses |-> cache.misses,
                                     cache_size |-> Len(cache.cache)],
                          initialized |-> is_initialized]), 0)
    /\ trace' = <<>>
    /\ UNCHANGED <<now, cache, pipelineVars, threads>>

\* LanguageAnalysisPipeline.reset_performance_metrics
ResetPerformanceMetrics ==
    /\ \E o \in {ResetMetrics(metrics, request_history, component_times)} :
          /\ metrics' = o.metrics
          /\ request_history' = o.history
          /\ component_times' = o.component_times
    /\ call' = Call("reset_performance_metrics", 0, <<>>, <<>>, None, "", None, 0)
    /\ trace' = <<>>
    /\ UNCHANGED <<now, cache, is_initialized, registryVars, threads>>

\* every model loads, the analyzer answers, no stage takes time
HandleEnvs == {Env(TRUE, TRUE, TRUE, 0)}

NextHandles ==
    \/ PipelineTick
    \/ Initialize
    \/ \E failing \in {{}} : Cleanup(failing)
    \/ \E request \in LifecycleRequests : \E env \in HandleEnvs : Analyze(request, env)
    \/ \E spelling \in BOOLEAN, text \in {<<" ", "A">>}, language \in Languages,
          lt_load \in {TRUE} :
          CheckOnly(spelling, text, language, lt_load)
    \/ GetPipelineStatus
    \/ GetPerformanceMetrics
    \/ ResetPerformanceMetrics

SpecHandles == Init /\ [][NextHandles]_vars

\* the handles that are registered and loaded, each with the registry map and
\* the key it is registered under
LoadedHandles ==
    {h \in {RegisteredHandles(stanza_processors, language_tool_processors)[i] :
              i \in 1..(Len(stanza_processors) + Len(language_tool_processors))} :
        handles[h.id].is_loaded}

-----------------------------------------------------------------------------
(* One analyze() call: its stages, its record, its result *)

\* the place of an event in the order of the stages
Rank(event) ==
    CASE event.ev = "start_request" -> 0
      [] event.ev = "cache_get" -> 1
      [] event.ev = "preprocess" -> 2
      [] event.ev = "validate" -> 3
      [] event.ev \in {"construct", "load", "invoke"} -> 4
      [] event.ev = "cache_set" -> 5
      [] event.ev = "end_request" -> 6

\* the completed call was an analyze() served from the cache
Hit(c, events) ==
    /\ c.op = "analyze"
    /\ c.raised # "NotInitialized"
    /\ Len(events) >= 2
    /\ events[2].ev = "cache_get"
    /\ events[2].ok

\* C31: the stages of one analyze() call occur in the order cache lookup,
\* preprocess, validate, capability invocations, cache store, metrics record;
\* the lookup is there in every call and comes before preprocessing, and on a
\* cache hit there is no preprocessing, no processor acquisition and no store
C31_StageOrder ==
    (call.op = "analyze" /\ call.raised # "NotInitialized")
    => /\ \A i, j \in 1..Len(trace) : i < j => Rank(trace[i]) <= Rank(trace[j])
       /\ \E i \in 1..Len(trace) : trace[i].ev = "cache_get"
       /\ Hit(call, trace)
          => \A i \in 1..Len(trace) :
                trace[i].ev \in {"start_request", "cache_get", "end_request"}

\* C31 witness: a call that missed ran every stage, and both capabilities,
\* before the store and the record
C31_Witness ==
    /\ Missed(call, trace)
    /\ \E i, j, k \in 1..Len(trace) :
          /\ i < j /\ j < k
          /\ trace[i].ev = "invoke" /\ trace[i].cap = "stanza"
          /\ trace[j].ev = "invoke" /\ trace[j].cap = "language_tool"
          /\ trace[k].ev = "cache_set"
    /\ trace[Len(trace)].ev = "end_request"

\* C31 witness of the cache hit: the call looked the cache up and recorded
\* the request, nothing else
C31_WitnessHit ==
    /\ Hit(call, trace)
    /\ Len(trace) = 3
    /\ handles # <<>>

\* C32: end_request returns normally for success=false as for success=true:
\* it counts the request, appends the record to the history and raises
\* nothing
C32_EndRequestReturns ==
    call.op = "end_request"
    => /\ call.raised = ""
       /\ \A before \in call.arg : metrics.request_count = before.requests + 1
       /\ request_history # <<>>
       /\ request_history[Len(request_history)] = trace[Len(trace)]

\* C33: every analyze() call on an initialized pipeline, whatever its outcome,
\* increases request_count by exactly one and appends exactly one record to
\* the request history
C33_OneRecordPerRequest ==
    [][AnalyzeStep
       => /\ metrics'.request_count = metrics.request_count + 1
          /\ request_history' # <<>>
          /\ request_history' =
                (IF Len(request_history) < max_history
                 THEN Append(request_history,
                             request_history'[Len(request_history')])
                 ELSE Append(Tail(request_history),
                             request_history'[Len(request_history')]))]_vars

-----------------------------------------------------------------------------
(* The pipeline asked for one text in several spellings, languages and flags *)

\* the requests: one word in upper and lower case, with and without blanks
\* around it, in both forms of the language code, under every choice of flags
ResultRequests ==
    {Request(text, language, f[1], f[2], f[3]) :
        text \in {<<" ", "A">>, <<"a">>, <<"A", " ">>},
        language \in Languages, f \in Flags}

NextResults ==
    \/ PipelineTick
    \/ Initialize
    \/ \E request \in ResultRequests : \E env \in HandleEnvs : Analyze(request, env)

SpecResults == Init /\ [][NextResults]_vars

\* the completed call was an analyze() that stored its result
Stored(c, events) ==
    /\ Missed(c, events)
    /\ \E i \in 1..Len(events) : events[i].ev = "cache_set"

\* C34: a request is never served a cached result computed under flags that
\* left out what it asks for: when a call stores its result and the next call
\* is served that entry, the first call ran the grammar check if the second
\* asks for it, and ran the analyzer if the second asks for morphology or
\* dependencies
C34_CachedResultRespectsFlags ==
    [][(/\ Stored(call, trace)
        /\ Hit(call', trace')
        /\ CallKey(call') = CallKey(call))
       => \A first \in call.arg, second \in call'.arg :
             /\ second.include_grammar_check => first.include_grammar_check
             /\ (second.include_morphological_analysis
                   \/ second.include_dependency_parsing)
                => (first.include_morphological_analysis
                     \/ first.include_dependency_parsing)]_vars

\* C35: every result analyze() returns, from the cache or not, has the
\* request's text, trimmed and truncated, as originalText and the request's
\* language as language
C35_ResultEchoesRequest ==
    (call.op = "analyze" /\ call.raised = "")
    => \A request \in call.arg, result \in call.value :
          /\ result.originalText = Preprocess(request.text, max_text_length).text
          /\ result.language = request.language

\* C36: the cache is consulted under the normalized language: a request whose
\* text has a live entry under a language code with the same normalized form
\* is a cache hit
C36_CacheUnderNormalizedLanguage ==
    [][(/\ AnalyzeStep
        /\ \E i \in 1..Len(cache.cache), language \in Languages :
              /\ cache.cache[i].key = GenerateKey(call'.text, language)
              /\ NormalizeLanguageCode(language) = NormalizeLanguageCode(call'.language)
              /\ ~Expired(cache.cache[i], now))
       => Hit(call', trace')]_vars

-----------------------------------------------------------------------------
(* Overwriting a cache entry *)

\* C37: a set for a key the cache already holds replaces that key's entry by
\* one with a fresh timestamp and an access count of 1 and removes no other
\* key's entry, also when the cache is full
C37_OverwriteKeepsOthers ==
    [][(SetStep /\ CallKey(call') \in Keys(cache.cache))
       => /\ Keys(cache'.cache) = Keys(cache.cache)
          /\ Entry(cache'.cache, CallKey(call')).timestamp = call'.at
          /\ Entry(cache'.cache, CallKey(call')).access_count = 1
          /\ \A k \in Keys(cache.cache) \ {CallKey(call')} :
                Entry(cache'.cache, k) = Entry(cache.cache, k)]_vars

-----------------------------------------------------------------------------
(* The counters of the monitor *)

\* the records of failed requests among the given ones
Failures(records) == {i \in 1..Len(records) : ~records[i].success}

\* C38: after any sequence of end_request and reset_metrics calls the cache
\* hits and the cache misses add up to the request count, the error count is
\* at most the request count, and the error count is the number of requests
\* recorded with success false since the last reset
C38_CounterConsistency ==
    /\ metrics.cache_hits + metrics.cache_misses = metrics.request_count
    /\ metrics.error_count <= metrics.request_count
    /\ metrics.error_count = Cardinality(Failures(trace))

\* a failed request recorded next to a cache hit
C38_Witness ==
    /\ call.op = "end_request"
    /\ call.raised = "UnboundLocalError"
    /\ metrics.error_count = 1
    /\ metrics.cache_hits = 1
    /\ metrics.request_count = 2

\* the counters after a reset that followed a failed request
C38_WitnessReset ==
    /\ call.op = "reset_metrics"
    /\ \E before \in call.arg : before.errors > 0
    /\ metrics.request_count = 0
    /\ metrics.error_count = 0
    /\ trace = <<>>

=============================================================================
